---------------------------- MODULE Spec2Model ----------------------------
(***************************************************************************)
(* Model of the column-alias resolution of the REACCH eddy-flux processing *)
(* scripts: definitions/tables.py (col_alias, table_definitions,           *)
(* current_names and the self-test passes) and standardize_toa5.py         *)
(* (_homogenize up to and including _standardize_df).                      *)
(*                                                                         *)
(* Identities are pairs <<table, column>> of strings.  An alias value is a *)
(* pair too: <<None, None>> (dropped), <<"", "">> (current) or a pair in   *)
(* which a blank field means "same as in the key".                         *)
(***************************************************************************)
EXTENDS Integers, Sequences, FiniteSets, TLC

(* Python's None; no table or column of the model bears this name *)
None == "None"

(***************************************************************************)
(* Bounds of the model                                                     *)
(***************************************************************************)
(* number of nested current_names frames the interpreter allows before it  *)
(* raises RuntimeError (maximum recursion depth exceeded)                  *)
RecursionLimit == 6

(* largest number of entries of a generated alias table *)
MaxKeys == 2

(* names the generated alias tables and table definitions are built from *)
GenTables == {"T", "U"}

GenColumns == {"X", "Y"}

GenIdentities == GenTables \X GenColumns

GenValues == {<<None, None>>} \cup (({""} \cup GenTables) \X ({""} \cup GenColumns))

(***************************************************************************)
(* The shipped data of definitions/tables.py                               *)
(***************************************************************************)
(* col_alias literal, tables.py lines 370-1220: one <<table, column, new table, new column>> per entry, in source order *)
ShippedEntries ==
  <<
     <<"site_info", "GitRepoTag", "", "">>,
     <<"stats30_ui", "TIMESTAMP", "", "">>,
     <<"stats30_ui", "RECORD", "", "">>,
     <<"stats30_ui", "dec_ndvi_up1_Avg", "", "">>,
     <<"stats30_ui", "dec_ndvi_up2_Avg", "", "">>,
     <<"stats30_ui", "dec_ndvi_dn1_Avg", "", "">>,
     <<"stats30_ui", "dec_ndvi_dn2_Avg", "", "">>,
     <<"stats30_ui", "dec_pri_up1_Avg", "", "">>,
     <<"stats30_ui", "dec_pri_up2_Avg", "", "">>,
     <<"stats30_ui", "dec_pri_dn1_Avg", "", "">>,
     <<"stats30_ui", "dec_pri_dn2_Avg", "", "">>,
     <<"stats30_ui", "tblcalls_Tot", "", "">>,
     <<"stats5_ui", "TIMESTAMP", "", "">>,
     <<"stats5_ui", "RECORD", "", "">>,
     <<"stats5_ui", "dec_ndvi_up1_Avg", "", "">>,
     <<"stats5_ui", "dec_ndvi_up2_Avg", "", "">>,
     <<"stats5_ui", "dec_ndvi_dn1_Avg", "", "">>,
     <<"stats5_ui", "dec_ndvi_dn2_Avg", "", "">>,
     <<"stats5_ui", "dec_pri_up1_Avg", "", "">>,
     <<"stats5_ui", "dec_pri_up2_Avg", "", "">>,
     <<"stats5_ui", "dec_pri_dn1_Avg", "", "">>,
     <<"stats5_ui", "dec_pri_dn2_Avg", "", "">>,
     <<"stats5_ui", "tblcalls_Tot", "", "">>,
     <<"diagnostics", "TIMESTAMP", "", "">>,
     <<"diagnostics", "RECORD", "", "">>,
     <<"diagnostics", "total_scans", "", "">>,
     <<"diagnostics", "scans_1hz", "", "">>,
     <<"diagnostics", "scans_5s", "", "">>,
     <<"diagnostics", "skipped_10hz_scans", "", "">>,
     <<"diagnostics", "skipped_1hz_scans", "", "">>,
     <<"diagnostics", "skipped_5s_scans", "", "">>,
     <<"diagnostics", "watchdog_errors", "", "">>,
     <<"tsdata_extra", "TIMESTAMP", "", "">>,
     <<"tsdata_extra", "RECORD", "", "">>,
     <<"tsdata_extra", "lgr_n2o", "", "">>,
     <<"tsdata_extra", "lgr_co", "", "">>,
     <<"tsdata_extra", "lgr_h2o", "", "">>,
     <<"tsdata_extra", "pic_co2", "", "">>,
     <<"tsdata_extra", "pic_ch4", "", "">>,
     <<"tsdata_extra", "pic_h2o", "", "">>,
     <<"extra_info", "TIMESTAMP", "", "">>,
     <<"extra_info", "RECORD", "", "">>,
     <<"extra_info", "Decagon_NDVI_installed", "", "">>,
     <<"extra_info", "Decagon_PRI_installed", "", "">>,
     <<"extra_info", "LGR_n2oco_installed", "", "">>,
     <<"extra_info", "lgr_n2o_mult", "", "">>,
     <<"extra_info", "lgr_n2o_offset", "", "">>,
     <<"extra_info", "lgr_co_mult", "", "">>,
     <<"extra_info", "lgr_co_offset", "", "">>,
     <<"extra_info", "lgr_h2o_mult", "", "">>,
     <<"extra_info", "lgr_h2o_offset", "", "">>,
     <<"extra_info", "Picarro_co2ch4_installed", "", "">>,
     <<"extra_info", "pic_co2_mult", "", "">>,
     <<"extra_info", "pic_co2_offset", "", "">>,
     <<"extra_info", "pic_ch4_mult", "", "">>,
     <<"extra_info", "pic_ch4_offset", "", "">>,
     <<"extra_info", "pic_h2o_mult", "", "">>,
     <<"extra_info", "pic_h2o_offset", "", "">>,
     <<"stats30_hfp", "TIMESTAMP", None, None>>,
     <<"stats30_hfp", "RECORD", None, None>>,
     <<"stats30_hfp", "soil_hfp1_heat_flux_Avg", "stats30", "">>,
     <<"stats30_hfp", "soil_hfp1_sensitivity", "stats30", "">>,
     <<"stats30_hfp", "soil_hfp2_heat_flux_Avg", "stats30", "">>,
     <<"stats30_hfp", "soil_hfp2_sensitivity", "stats30", "">>,
     <<"stats30_hfp", "hfp1_samples_Tot", None, None>>,
     <<"stats30_hfp", "hfp2_samples_Tot", None, None>>,
     <<"stats30_hfp", "tblcalls_Tot", None, None>>,
     <<"stats5_hfp", "TIMESTAMP", None, None>>,
     <<"stats5_hfp", "RECORD", None, None>>,
     <<"stats5_hfp", "soil_hfp1_heat_flux_Avg", "stats5", "">>,
     <<"stats5_hfp", "soil_hfp1_sensitivity", "stats5", "">>,
     <<"stats5_hfp", "soil_hfp2_heat_flux_Avg", "stats5", "">>,
     <<"stats5_hfp", "soil_hfp2_sensitivity", "stats5", "">>,
     <<"stats5_hfp", "hfp1_samples_Tot", None, None>>,
     <<"stats5_hfp", "hfp2_samples_Tot", None, None>>,
     <<"stats5_hfp", "tblcalls_Tot", None, None>>,
     <<"site_info", "TIMESTAMP", "", "">>,
     <<"site_info", "RECORD", "", "">>,
     <<"site_info", "UTC_offset", "", "">>,
     <<"site_info", "sonic_azimuth", "", "">>,
     <<"site_info", "NRLite2_sens", "", "">>,
     <<"site_info", "LI190SB_sens", "", "">>,
     <<"site_info", "HFP_1_sens", "", "">>,
     <<"site_info", "HFP_2_sens", "", "">>,
     <<"site_info", "CompileResults", "", "">>,
     <<"site_info", "CardStatus", "", "">>,
     <<"site_info", "RunSig", "", "">>,
     <<"site_info", "ProgSig", "", "">>,
     <<"site_info", "SENSOR_DEC_5TM", None, None>>,
     <<"site_info", "SENSOR_DEC_6RAD", "", "Dec_6rad_installed">>,
     <<"site_info", "Dec_6rad_installed", None, None>>,
     <<"site_info", "SENSOR_LGR_N2OCO", "", "LGR_n2o_co_installed">>,
     <<"site_info", "LGR_n2o_co_installed", "extra_info", "LGR_n2oco_installed">>,
     <<"site_info", "SENSOR_PIC_CO2CH4", "", "Pic_co2_ch4_installed">>,
     <<"site_info", "Pic_co2_ch4_installed", "extra_info", "Picarro_co2ch4_installed">>,
     <<"site_info", "SENSOR_HFP01SC", "", "hfp_installed">>,
     <<"site_info", "hfp_installed", "", "">>,
     <<"stats30_6rad", "TIMESTAMP", "", "">>,
     <<"stats30_6rad", "RECORD", "", "">>,
     <<"stats30_6rad", "dec_6rad_up_Avg(1)", "", "dec_6rad_uplook_Avg(1)">>,
     <<"stats30_6rad", "dec_6rad_up_Avg(2)", "", "dec_6rad_uplook_Avg(2)">>,
     <<"stats30_6rad", "dec_6rad_up_Avg(3)", "", "dec_6rad_uplook_Avg(3)">>,
     <<"stats30_6rad", "dec_6rad_up_Avg(4)", "", "dec_6rad_uplook_Avg(4)">>,
     <<"stats30_6rad", "dec_6rad_up_Avg(5)", "", "dec_6rad_uplook_Avg(5)">>,
     <<"stats30_6rad", "dec_6rad_up_Avg(6)", "", "dec_6rad_uplook_Avg(6)">>,
     <<"stats30_6rad", "dec_6rad_dn_Avg(1)", "", "dec_6rad_dnlook_Avg(1)">>,
     <<"stats30_6rad", "dec_6rad_dn_Avg(2)", "", "dec_6rad_dnlook_Avg(2)">>,
     <<"stats30_6rad", "dec_6rad_dn_Avg(3)", "", "dec_6rad_dnlook_Avg(3)">>,
     <<"stats30_6rad", "dec_6rad_dn_Avg(4)", "", "dec_6rad_dnlook_Avg(4)">>,
     <<"stats30_6rad", "dec_6rad_dn_Avg(5)", "", "dec_6rad_dnlook_Avg(5)">>,
     <<"stats30_6rad", "dec_6rad_dn_Avg(6)", "", "dec_6rad_dnlook_Avg(6)">>,
     <<"stats30_6rad", "dec_6rad_uplook_Avg(1)", "", "">>,
     <<"stats30_6rad", "dec_6rad_uplook_Avg(2)", "", "">>,
     <<"stats30_6rad", "dec_6rad_uplook_Avg(3)", "", "">>,
     <<"stats30_6rad", "dec_6rad_uplook_Avg(4)", "", "">>,
     <<"stats30_6rad", "dec_6rad_uplook_Avg(5)", "", "">>,
     <<"stats30_6rad", "dec_6rad_uplook_Avg(6)", "", "">>,
     <<"stats30_6rad", "dec_6rad_dnlook_Avg(1)", "", "">>,
     <<"stats30_6rad", "dec_6rad_dnlook_Avg(2)", "", "">>,
     <<"stats30_6rad", "dec_6rad_dnlook_Avg(3)", "", "">>,
     <<"stats30_6rad", "dec_6rad_dnlook_Avg(4)", "", "">>,
     <<"stats30_6rad", "dec_6rad_dnlook_Avg(5)", "", "">>,
     <<"stats30_6rad", "dec_6rad_dnlook_Avg(6)", "", "">>,
     <<"stats30_6rad", "tblcalls_Tot", "", "">>,
     <<"stats5_6rad", "TIMESTAMP", "", "">>,
     <<"stats5_6rad", "RECORD", "", "">>,
     <<"stats5_6rad", "dec_6rad_up_Avg(1)", "", "dec_6rad_uplook_Avg(1)">>,
     <<"stats5_6rad", "dec_6rad_up_Avg(2)", "", "dec_6rad_uplook_Avg(2)">>,
     <<"stats5_6rad", "dec_6rad_up_Avg(3)", "", "dec_6rad_uplook_Avg(3)">>,
     <<"stats5_6rad", "dec_6rad_up_Avg(4)", "", "dec_6rad_uplook_Avg(4)">>,
     <<"stats5_6rad", "dec_6rad_up_Avg(5)", "", "dec_6rad_uplook_Avg(5)">>,
     <<"stats5_6rad", "dec_6rad_up_Avg(6)", "", "dec_6rad_uplook_Avg(6)">>,
     <<"stats5_6rad", "dec_6rad_dn_Avg(1)", "", "dec_6rad_dnlook_Avg(1)">>,
     <<"stats5_6rad", "dec_6rad_dn_Avg(2)", "", "dec_6rad_dnlook_Avg(2)">>,
     <<"stats5_6rad", "dec_6rad_dn_Avg(3)", "", "dec_6rad_dnlook_Avg(3)">>,
     <<"stats5_6rad", "dec_6rad_dn_Avg(4)", "", "dec_6rad_dnlook_Avg(4)">>,
     <<"stats5_6rad", "dec_6rad_dn_Avg(5)", "", "dec_6rad_dnlook_Avg(5)">>,
     <<"stats5_6rad", "dec_6rad_dn_Avg(6)", "", "dec_6rad_dnlook_Avg(6)">>,
     <<"stats5_6rad", "dec_6rad_uplook_Avg(1)", "", "">>,
     <<"stats5_6rad", "dec_6rad_uplook_Avg(2)", "", "">>,
     <<"stats5_6rad", "dec_6rad_uplook_Avg(3)", "", "">>,
     <<"stats5_6rad", "dec_6rad_uplook_Avg(4)", "", "">>,
     <<"stats5_6rad", "dec_6rad_uplook_Avg(5)", "", "">>,
     <<"stats5_6rad", "dec_6rad_uplook_Avg(6)", "", "">>,
     <<"stats5_6rad", "dec_6rad_dnlook_Avg(1)", "", "">>,
     <<"stats5_6rad", "dec_6rad_dnlook_Avg(2)", "", "">>,
     <<"stats5_6rad", "dec_6rad_dnlook_Avg(3)", "", "">>,
     <<"stats5_6rad", "dec_6rad_dnlook_Avg(4)", "", "">>,
     <<"stats5_6rad", "dec_6rad_dnlook_Avg(5)", "", "">>,
     <<"stats5_6rad", "dec_6rad_dnlook_Avg(6)", "", "">>,
     <<"stats5_6rad", "tblcalls_Tot", "", "">>,
     <<"tsdata", "TIMESTAMP", "", "">>,
     <<"tsdata", "RECORD", "", "">>,
     <<"tsdata", "Ux", "", "">>,
     <<"tsdata", "Uy", "", "">>,
     <<"tsdata", "Uz", "", "">>,
     <<"tsdata", "Ts", "", "">>,
     <<"tsdata", "diag_sonic", "", "">>,
     <<"tsdata", "CO2", "", "">>,
     <<"tsdata", "H2O", "", "">>,
     <<"tsdata", "diag_irga", "", "">>,
     <<"tsdata", "amb_tmpr", "", "">>,
     <<"tsdata", "amb_press", "", "">>,
     <<"tsdata", "CO2_signal", "", "">>,
     <<"tsdata", "H2O_signal", "", "">>,
     <<"stats30", "TIMESTAMP", "", "">>,
     <<"stats30", "RECORD", "", "">>,
     <<"stats30", "L", "", "">>,
     <<"stats30", "u_star", "", "">>,
     <<"stats30", "tau", "", "">>,
     <<"stats30", "Fc_wpl", "", "">>,
     <<"stats30", "LE_wpl", "", "">>,
     <<"stats30", "Hc", "", "">>,
     <<"stats30", "Ts_Avg", "", "">>,
     <<"stats30", "Ts_Std", "", "">>,
     <<"stats30", "Tc_Avg", "", "">>,
     <<"stats30", "Uz_Std", "", "">>,
     <<"stats30", "wnd_spd", "", "">>,
     <<"stats30", "rslt_wnd_spd", "", "">>,
     <<"stats30", "rslt_wnd_dir", "", "">>,
     <<"stats30", "std_wnd_dir", "", "">>,
     <<"stats30", "sonic_uptime", "", "">>,
     <<"stats30", "CO2_ppm_Avg_Avg", "", "CO2_ppm_Avg">>,
     <<"stats30", "CO2_ppm_Avg", "", "">>,
     <<"stats30", "CO2_mg_m3_Avg", "", "">>,
     <<"stats30", "CO2_mg_m3_Std", "", "">>,
     <<"stats30", "CO2_signal_Avg", "", "">>,
     <<"stats30", "H2O_g_kg_Avg", "", "">>,
     <<"stats30", "H2O_g_m3_Avg", "", "">>,
     <<"stats30", "H2O_g_m3_Std", "", "">>,
     <<"stats30", "H2O_signal_Avg", "", "">>,
     <<"stats30", "amb_tmpr_Avg", "", "">>,
     <<"stats30", "amb_press_Avg", "", "">>,
     <<"stats30", "irga_uptime", "", "">>,
     <<"stats30", "T_hmp_Avg", "", "">>,
     <<"stats30", "RH_hmp_Avg", "", "">>,
     <<"stats30", "e_hmp_Avg", "", "">>,
     <<"stats30", "e_sat_hmp_Avg", "", "">>,
     <<"stats30", "Rn_Avg", "", "">>,
     <<"stats30", "Rn_meas_Avg", "", "">>,
     <<"stats30", "PAR_totflx_Tot", "", "">>,
     <<"stats30", "PAR_flxdens_Avg", "", "">>,
     <<"stats30", "Met1_wnd_spd", "", "">>,
     <<"stats30", "Met1_rslt_wnd_spd", "", "">>,
     <<"stats30", "Met1_wnd_dir", "", "Met1_rslt_wnd_dir">>,
     <<"stats30", "Met1_rslt_wnd_dir", "", "">>,
     <<"stats30", "Met1_std_wnd_dir", "", "">>,
     <<"stats30", "Rain_mm_Tot", "", "">>,
     <<"stats30", "soil_5TM_ID5_epsilon_Avg", "", "soil_5TM_ID5_E_Avg">>,
     <<"stats30", "soil_5TM_ID5_E_Avg", "", "">>,
     <<"stats30", "soil_5TM_ID5_T_Avg", "", "">>,
     <<"stats30", "soil_5TM_ID5_VWC_Avg", "", "">>,
     <<"stats30", "soil_5TM_ID6_epsilon_Avg", "", "soil_5TM_ID6_E_Avg">>,
     <<"stats30", "soil_5TM_ID6_E_Avg", "", "">>,
     <<"stats30", "soil_5TM_ID6_T_Avg", "", "">>,
     <<"stats30", "soil_5TM_ID6_VWC_Avg", "", "">>,
     <<"stats30", "soil_5TM_ID7_epsilon_Avg", "", "soil_5TM_ID7_E_Avg">>,
     <<"stats30", "soil_5TM_ID7_E_Avg", "", "">>,
     <<"stats30", "soil_5TM_ID7_T_Avg", "", "">>,
     <<"stats30", "soil_5TM_ID7_VWC_Avg", "", "">>,
     <<"stats30", "soil_5TM_ID8_epsilon_Avg", "", "soil_5TM_ID8_E_Avg">>,
     <<"stats30", "soil_5TM_ID8_E_Avg", "", "">>,
     <<"stats30", "soil_5TM_ID8_T_Avg", "", "">>,
     <<"stats30", "soil_5TM_ID8_VWC_Avg", "", "">>,
     <<"stats30", "soil_5TM_ID9_epsilon_Avg", "", "soil_5TM_ID9_E_Avg">>,
     <<"stats30", "soil_5TM_ID9_E_Avg", "", "">>,
     <<"stats30", "soil_5TM_ID9_T_Avg", "", "">>,
     <<"stats30", "soil_5TM_ID9_VWC_Avg", "", "">>,
     <<"stats30", "soil_hfp1_heat_flux_Avg", "", "">>,
     <<"stats30", "soil_hfp1_sensitivity", "", "">>,
     <<"stats30", "soil_hfp2_heat_flux_Avg", "", "">>,
     <<"stats30", "soil_hfp2_sensitivity", "", "">>,
     <<"stats30", "panel_tmpr_Avg", "", "">>,
     <<"stats30", "batt_volt_Avg", "", "">>,
     <<"stats5", "TIMESTAMP", "", "">>,
     <<"stats5", "RECORD", "", "">>,
     <<"stats5", "L", "", "">>,
     <<"stats5", "u_star", "", "">>,
     <<"stats5", "tau", "", "">>,
     <<"stats5", "Fc_wpl", "", "">>,
     <<"stats5", "LE_wpl", "", "">>,
     <<"stats5", "Hc", "", "">>,
     <<"stats5", "Ts_Avg", "", "">>,
     <<"stats5", "Ts_Std", "", "">>,
     <<"stats5", "Tc_Avg", "", "">>,
     <<"stats5", "Uz_Std", "", "">>,
     <<"stats5", "wnd_spd", "", "">>,
     <<"stats5", "rslt_wnd_spd", "", "">>,
     <<"stats5", "rslt_wnd_dir", "", "">>,
     <<"stats5", "std_wnd_dir", "", "">>,
     <<"stats5", "sonic_uptime", "", "">>,
     <<"stats5", "CO2_ppm_Avg_Avg", "", "CO2_ppm_Avg">>,
     <<"stats5", "CO2_ppm_Avg", "", "">>,
     <<"stats5", "CO2_mg_m3_Avg", "", "">>,
     <<"stats5", "CO2_mg_m3_Std", "", "">>,
     <<"stats5", "CO2_signal_Avg", "", "">>,
     <<"stats5", "H2O_g_kg_Avg", "", "">>,
     <<"stats5", "H2O_g_m3_Avg", "", "">>,
     <<"stats5", "H2O_g_m3_Std", "", "">>,
     <<"stats5", "H2O_signal_Avg", "", "">>,
     <<"stats5", "amb_tmpr_Avg", "", "">>,
     <<"stats5", "amb_press_Avg", "", "">>,
     <<"stats5", "irga_uptime", "", "">>,
     <<"stats5", "T_hmp_Avg", "", "">>,
     <<"stats5", "RH_hmp_Avg", "", "">>,
     <<"stats5", "e_hmp_Avg", "", "">>,
     <<"stats5", "e_sat_hmp_Avg", "", "">>,
     <<"stats5", "Rn_Avg", "", "">>,
     <<"stats5", "Rn_meas_Avg", "", "">>,
     <<"stats5", "PAR_totflx_Tot", "", "">>,
     <<"stats5", "PAR_flxdens_Avg", "", "">>,
     <<"stats5", "Met1_wnd_spd", "", "">>,
     <<"stats5", "Met1_rslt_wnd_spd", "", "">>,
     <<"stats5", "Met1_wnd_dir", "", "Met1_rslt_wnd_dir">>,
     <<"stats5", "Met1_rslt_wnd_dir", "", "">>,
     <<"stats5", "Met1_std_wnd_dir", "", "">>,
     <<"stats5", "Rain_mm_Tot", "", "">>,
     <<"stats5", "soil_5TM_ID5_epsilon_Avg", "", "soil_5TM_ID5_E_Avg">>,
     <<"stats5", "soil_5TM_ID5_E_Avg", "", "">>,
     <<"stats5", "soil_5TM_ID5_T_Avg", "", "">>,
     <<"stats5", "soil_5TM_ID5_VWC_Avg", "", "">>,
     <<"stats5", "soil_5TM_ID6_epsilon_Avg", "", "soil_5TM_ID6_E_Avg">>,
     <<"stats5", "soil_5TM_ID6_E_Avg", "", "">>,
     <<"stats5", "soil_5TM_ID6_T_Avg", "", "">>,
     <<"stats5", "soil_5TM_ID6_VWC_Avg", "", "">>,
     <<"stats5", "soil_5TM_ID7_epsilon_Avg", "", "soil_5TM_ID7_E_Avg">>,
     <<"stats5", "soil_5TM_ID7_E_Avg", "", "">>,
     <<"stats5", "soil_5TM_ID7_T_Avg", "", "">>,
     <<"stats5", "soil_5TM_ID7_VWC_Avg", "", "">>,
     <<"stats5", "soil_5TM_ID8_epsilon_Avg", "", "soil_5TM_ID8_E_Avg">>,
     <<"stats5", "soil_5TM_ID8_E_Avg", "", "">>,
     <<"stats5", "soil_5TM_ID8_T_Avg", "", "">>,
     <<"stats5", "soil_5TM_ID8_VWC_Avg", "", "">>,
     <<"stats5", "soil_5TM_ID9_epsilon_Avg", "", "soil_5TM_ID9_E_Avg">>,
     <<"stats5", "soil_5TM_ID9_E_Avg", "", "">>,
     <<"stats5", "soil_5TM_ID9_T_Avg", "", "">>,
     <<"stats5", "soil_5TM_ID9_VWC_Avg", "", "">>,
     <<"stats5", "soil_hfp1_heat_flux_Avg", "", "">>,
     <<"stats5", "soil_hfp1_sensitivity", "", "">>,
     <<"stats5", "soil_hfp2_heat_flux_Avg", "", "">>,
     <<"stats5", "soil_hfp2_sensitivity", "", "">>,
     <<"stats5", "panel_tmpr_Avg", "", "">>,
     <<"stats5", "batt_volt_Avg", "", "">>,
     <<"site_daily", "TIMESTAMP", "", "">>,
     <<"site_daily", "RECORD", "", "">>,
     <<"site_daily", "sonic_azimuth", None, None>>,
     <<"site_daily", "latitude", "", "latitude_Med">>,
     <<"site_daily", "latitude_Med", "", "">>,
     <<"site_daily", "latitude_a_Avg", None, None>>,
     <<"site_daily", "latitude_b_Avg", None, None>>,
     <<"site_daily", "longitude", "", "longitude_Med">>,
     <<"site_daily", "longitude_Med", "", "">>,
     <<"site_daily", "longitude_a_Avg", None, None>>,
     <<"site_daily", "longitude_b_Avg", None, None>>,
     <<"site_daily", "magnetic_variation_Med", "", "">>,
     <<"site_daily", "magnetic_variation_Avg", None, None>>,
     <<"site_daily", "nmbr_satellites_Avg", "", "">>,
     <<"site_daily", "altitude_Med", "", "">>,
     <<"site_daily", "altitude_Avg", "", "">>,
     <<"site_daily", "gps_ready_Min", "", "">>,
     <<"site_daily", "max_clock_change", "", "">>,
     <<"site_daily", "nmbr_clock_change", "", "">>,
     <<"site_daily", "RunSig", None, None>>,
     <<"site_daily", "ProgSig", None, None>>,
     <<"site_daily", "batt_volt_Min", "", "">>,
     <<"site_daily", "batt_volt_TMn", "", "">>,
     <<"site_daily", "batt_volt_Max", "", "">>,
     <<"site_daily", "batt_volt_TMx", "", "">>,
     <<"site_daily", "T_hmp_Min", "", "">>,
     <<"site_daily", "T_hmp_TMn", "", "">>,
     <<"site_daily", "T_hmp_Max", "", "">>,
     <<"site_daily", "T_hmp_TMx", "", "">>,
     <<"stats30_soil", "TIMESTAMP", None, None>>,
     <<"stats30_soil", "RECORD", None, None>>,
     <<"stats30_soil", "soil_5TM_ID5_epsilon_Avg", "stats30", "">>,
     <<"stats30_soil", "soil_5TM_ID5_T_Avg", "stats30", "">>,
     <<"stats30_soil", "soil_5TM_ID5_VWC_Avg", "stats30", "">>,
     <<"stats30_soil", "soil_5TM_ID6_epsilon_Avg", "stats30", "">>,
     <<"stats30_soil", "soil_5TM_ID6_T_Avg", "stats30", "">>,
     <<"stats30_soil", "soil_5TM_ID6_VWC_Avg", "stats30", "">>,
     <<"stats30_soil", "soil_5TM_ID7_epsilon_Avg", "stats30", "">>,
     <<"stats30_soil", "soil_5TM_ID7_T_Avg", "stats30", "">>,
     <<"stats30_soil", "soil_5TM_ID7_VWC_Avg", "stats30", "">>,
     <<"stats30_soil", "soil_5TM_ID8_epsilon_Avg", "stats30", "">>,
     <<"stats30_soil", "soil_5TM_ID8_T_Avg", "stats30", "">>,
     <<"stats30_soil", "soil_5TM_ID8_VWC_Avg", "stats30", "">>,
     <<"stats30_soil", "soil_5TM_ID9_epsilon_Avg", "stats30", "">>,
     <<"stats30_soil", "soil_5TM_ID9_T_Avg", "stats30", "">>,
     <<"stats30_soil", "soil_5TM_ID9_VWC_Avg", "stats30", "">>,
     <<"stats30_soil", "soil_hfp1_heat_flux_Avg", "stats30_hfp", "">>,
     <<"stats30_soil", "soil_hfp1_sensitivity", "stats30_hfp", "">>,
     <<"stats30_soil", "soil_hfp2_heat_flux_Avg", "stats30_hfp", "">>,
     <<"stats30_soil", "soil_hfp2_sensitivity", "stats30_hfp", "">>,
     <<"stats5_soil", "TIMESTAMP", None, None>>,
     <<"stats5_soil", "RECORD", None, None>>,
     <<"stats5_soil", "soil_5TM_ID5_epsilon_Avg", "stats5", "">>,
     <<"stats5_soil", "soil_5TM_ID5_T_Avg", "stats5", "">>,
     <<"stats5_soil", "soil_5TM_ID5_VWC_Avg", "stats5", "">>,
     <<"stats5_soil", "soil_5TM_ID6_epsilon_Avg", "stats5", "">>,
     <<"stats5_soil", "soil_5TM_ID6_T_Avg", "stats5", "">>,
     <<"stats5_soil", "soil_5TM_ID6_VWC_Avg", "stats5", "">>,
     <<"stats5_soil", "soil_5TM_ID7_epsilon_Avg", "stats5", "">>,
     <<"stats5_soil", "soil_5TM_ID7_T_Avg", "stats5", "">>,
     <<"stats5_soil", "soil_5TM_ID7_VWC_Avg", "stats5", "">>,
     <<"stats5_soil", "soil_5TM_ID8_epsilon_Avg", "stats5", "">>,
     <<"stats5_soil", "soil_5TM_ID8_T_Avg", "stats5", "">>,
     <<"stats5_soil", "soil_5TM_ID8_VWC_Avg", "stats5", "">>,
     <<"stats5_soil", "soil_5TM_ID9_epsilon_Avg", "stats5", "">>,
     <<"stats5_soil", "soil_5TM_ID9_T_Avg", "stats5", "">>,
     <<"stats5_soil", "soil_5TM_ID9_VWC_Avg", "stats5", "">>,
     <<"stats5_soil", "soil_hfp1_heat_flux_Avg", "stats5_hfp", "">>,
     <<"stats5_soil", "soil_hfp1_sensitivity", "stats5_hfp", "">>,
     <<"stats5_soil", "soil_hfp2_heat_flux_Avg", "stats5_hfp", "">>,
     <<"stats5_soil", "soil_hfp2_sensitivity", "stats5_hfp", "">>,
     <<"tsdata_n2o_co", "TIMESTAMP", None, None>>,
     <<"tsdata_n2o_co", "RECORD", None, None>>,
     <<"tsdata_n2o_co", "lgr_n2o", "tsdata_extra", "lgr_n2o">>,
     <<"tsdata_n2o_co", "lgr_co", "tsdata_extra", "lgr_co">>,
     <<"stats30_n2o_co", "TIMESTAMP", "", "">>,
     <<"stats30_n2o_co", "RECORD", "", "">>,
     <<"stats30_n2o_co", "lgr_n2o_Avg", "", "">>,
     <<"stats30_n2o_co", "lgr_n2o_Std", "", "">>,
     <<"stats30_n2o_co", "lgr_co_Avg", "", "">>,
     <<"stats30_n2o_co", "lgr_co_Std", "", "">>,
     <<"stats30_n2o_co", "lgr_uptime", "", "lgr_n2o_co_uptime">>,
     <<"stats30_n2o_co", "cov_n2o_Uz", None, None>>,
     <<"stats30_n2o_co", "cov_co_Uz", None, None>>,
     <<"stats30_n2o_co", "lgr_n2o_co_uptime", "", "">>,
     <<"stats5_n2o_co", "TIMESTAMP", "", "">>,
     <<"stats5_n2o_co", "RECORD", "", "">>,
     <<"stats5_n2o_co", "lgr_n2o_Avg", "", "">>,
     <<"stats5_n2o_co", "lgr_n2o_Std", "", "">>,
     <<"stats5_n2o_co", "lgr_co_Avg", "", "">>,
     <<"stats5_n2o_co", "lgr_co_Std", "", "">>,
     <<"stats5_n2o_co", "lgr_uptime", "", "lgr_n2o_co_uptime">>,
     <<"stats5_n2o_co", "cov_n2o_Uz", None, None>>,
     <<"stats5_n2o_co", "cov_co_Uz", None, None>>,
     <<"stats5_n2o_co", "lgr_n2o_co_uptime", "", "">>,
     <<"stats30_extra", "TIMESTAMP", "stats30_n2o_co", "">>,
     <<"stats30_extra", "RECORD", "stats30_n2o_co", "">>,
     <<"stats30_extra", "lgr_n2o_Avg", "stats30_n2o_co", "">>,
     <<"stats30_extra", "lgr_n2o_Std", "stats30_n2o_co", "">>,
     <<"stats30_extra", "lgr_co_Avg", "stats30_n2o_co", "">>,
     <<"stats30_extra", "lgr_co_Std", "stats30_n2o_co", "">>,
     <<"stats30_extra", "lgr_uptime", "stats30_n2o_co", "">>,
     <<"stats30_extra", "cov_n2o_Uz", "stats30_n2o_co", "">>,
     <<"stats30_extra", "cov_co_Uz", "stats30_n2o_co", "">>,
     <<"stats5_extra", "TIMESTAMP", "stats5_n2o_co", "">>,
     <<"stats5_extra", "RECORD", "stats5_n2o_co", "">>,
     <<"stats5_extra", "lgr_n2o_Avg", "stats5_n2o_co", "">>,
     <<"stats5_extra", "lgr_n2o_Std", "stats5_n2o_co", "">>,
     <<"stats5_extra", "lgr_co_Avg", "stats5_n2o_co", "">>,
     <<"stats5_extra", "lgr_co_Std", "stats5_n2o_co", "">>,
     <<"stats5_extra", "lgr_uptime", "stats5_n2o_co", "">>,
     <<"stats5_extra", "cov_n2o_Uz", "stats5_n2o_co", "">>,
     <<"stats5_extra", "cov_co_Uz", "stats5_n2o_co", "">>,
     <<"CFNT_tsdata", "TIMESTAMP", "tsdata", "">>,
     <<"CFNT_tsdata", "RECORD", "tsdata", "">>,
     <<"CFNT_tsdata", "Ux", "tsdata", "">>,
     <<"CFNT_tsdata", "Uy", "tsdata", "">>,
     <<"CFNT_tsdata", "Uz", "tsdata", "">>,
     <<"CFNT_tsdata", "Ts", "tsdata", "">>,
     <<"CFNT_tsdata", "diag_sonic", "tsdata", "">>,
     <<"CFNT_tsdata", "CO2", "tsdata", "">>,
     <<"CFNT_tsdata", "H2O", "tsdata", "">>,
     <<"CFNT_tsdata", "diag_irga", "tsdata", "">>,
     <<"CFNT_tsdata", "amb_tmpr", "tsdata", "">>,
     <<"CFNT_tsdata", "amb_press", "tsdata", "">>,
     <<"CFNT_tsdata", "CO2_signal", "tsdata", "">>,
     <<"CFNT_tsdata", "H2O_signal", "tsdata", "">>,
     <<"CFNT_stats30", "TIMESTAMP", "stats30", "">>,
     <<"CFNT_stats30", "RECORD", "stats30", "">>,
     <<"CFNT_stats30", "L", "stats30", "">>,
     <<"CFNT_stats30", "u_star", "stats30", "">>,
     <<"CFNT_stats30", "tau", "stats30", "">>,
     <<"CFNT_stats30", "Fc_wpl", "stats30", "">>,
     <<"CFNT_stats30", "LE_wpl", "stats30", "">>,
     <<"CFNT_stats30", "Hc", "stats30", "">>,
     <<"CFNT_stats30", "Ts_Avg", "stats30", "">>,
     <<"CFNT_stats30", "Ts_Std", "stats30", "">>,
     <<"CFNT_stats30", "Tc_Avg", "stats30", "">>,
     <<"CFNT_stats30", "Tc_Std", None, None>>,
     <<"CFNT_stats30", "Uz_Std", "stats30", "">>,
     <<"CFNT_stats30", "wnd_spd", "stats30", "">>,
     <<"CFNT_stats30", "rslt_wnd_spd", "stats30", "">>,
     <<"CFNT_stats30", "std_wnd_dir", "stats30", "">>,
     <<"CFNT_stats30", "wnd_dir_compass", "stats30", "rslt_wnd_dir">>,
     <<"CFNT_stats30", "sonic_samples_Tot", None, None>>,
     <<"CFNT_stats30", "sonic_uptime", "stats30", "">>,
     <<"CFNT_stats30", "CO2_ppm_Avg", "stats30", "">>,
     <<"CFNT_stats30", "CO2_ppm_Std", None, None>>,
     <<"CFNT_stats30", "CO2_mg_m3_Avg", "stats30", "">>,
     <<"CFNT_stats30", "CO2_mg_m3_Std", "stats30", "">>,
     <<"CFNT_stats30", "CO2_signal_Avg", "stats30", "">>,
     <<"CFNT_stats30", "H2O_g_kg_Avg", "stats30", "">>,
     <<"CFNT_stats30", "H2O_g_kg_Std", None, None>>,
     <<"CFNT_stats30", "H2O_g_m3_Avg", "stats30", "">>,
     <<"CFNT_stats30", "H2O_g_m3_Std", "stats30", "">>,
     <<"CFNT_stats30", "H2O_signal_Avg", "stats30", "">>,
     <<"CFNT_stats30", "amb_tmpr_Avg", "stats30", "">>,
     <<"CFNT_stats30", "amb_press_Avg", "stats30", "">>,
     <<"CFNT_stats30", "irga_samples_Tot", None, None>>,
     <<"CFNT_stats30", "irga_uptime", "stats30", "">>,
     <<"CFNT_stats30", "T_hmp_Avg", "stats30", "">>,
     <<"CFNT_stats30", "RH_hmp_Avg", "stats30", "">>,
     <<"CFNT_stats30", "e_hmp_Avg", "stats30", "">>,
     <<"CFNT_stats30", "e_sat_hmp_Avg", "stats30", "">>,
     <<"CFNT_stats30", "hmp_uptime", None, None>>,
     <<"CFNT_stats30", "Rn_Avg", "stats30", "">>,
     <<"CFNT_stats30", "Rn_meas_Avg", "stats30", "">>,
     <<"CFNT_stats30", "PAR_totflx_Tot", "stats30", "">>,
     <<"CFNT_stats30", "PAR_flxdens_Avg", "stats30", "">>,
     <<"CFNT_stats30", "Met1_wnd_spd", "stats30", "">>,
     <<"CFNT_stats30", "Met1_rslt_wnd_spd", "stats30", "">>,
     <<"CFNT_stats30", "Met1_wnd_dir", "stats30", "">>,
     <<"CFNT_stats30", "Met1_std_wnd_dir", "stats30", "">>,
     <<"CFNT_stats30", "Met1_uptime", None, None>>,
     <<"CFNT_stats30", "Rain_mm_Tot", "stats30", "">>,
     <<"CFNT_stats30", "panel_tmpr_Avg", "stats30", "">>,
     <<"CFNT_stats30", "batt_volt_Avg", "stats30", "">>,
     <<"CFNT_stats5", "TIMESTAMP", "stats5", "">>,
     <<"CFNT_stats5", "RECORD", "stats5", "">>,
     <<"CFNT_stats5", "L", "stats5", "">>,
     <<"CFNT_stats5", "u_star", "stats5", "">>,
     <<"CFNT_stats5", "tau", "stats5", "">>,
     <<"CFNT_stats5", "Fc_wpl", "stats5", "">>,
     <<"CFNT_stats5", "LE_wpl", "stats5", "">>,
     <<"CFNT_stats5", "Hc", "stats5", "">>,
     <<"CFNT_stats5", "Ts_Avg", "stats5", "">>,
     <<"CFNT_stats5", "Ts_Std", "stats5", "">>,
     <<"CFNT_stats5", "Tc_Avg", "stats5", "">>,
     <<"CFNT_stats5", "Tc_Std", None, None>>,
     <<"CFNT_stats5", "Uz_Std", "stats5", "">>,
     <<"CFNT_stats5", "wnd_spd", "stats5", "">>,
     <<"CFNT_stats5", "rslt_wnd_spd", "stats5", "">>,
     <<"CFNT_stats5", "std_wnd_dir", "stats5", "">>,
     <<"CFNT_stats5", "wnd_dir_compass", "stats5", "rslt_wnd_spd">>,
     <<"CFNT_stats5", "sonic_samples_Tot", None, None>>,
     <<"CFNT_stats5", "sonic_uptime", "stats5", "">>,
     <<"CFNT_stats5", "CO2_ppm_Avg", "stats5", "">>,
     <<"CFNT_stats5", "CO2_ppm_Std", None, None>>,
     <<"CFNT_stats5", "CO2_mg_m3_Avg", "stats5", "">>,
     <<"CFNT_stats5", "CO2_mg_m3_Std", "stats5", "">>,
     <<"CFNT_stats5", "CO2_signal_Avg", "stats5", "">>,
     <<"CFNT_stats5", "H2O_g_kg_Avg", "stats5", "">>,
     <<"CFNT_stats5", "H2O_g_kg_Std", None, None>>,
     <<"CFNT_stats5", "H2O_g_m3_Avg", "stats5", "">>,
     <<"CFNT_stats5", "H2O_g_m3_Std", "stats5", "">>,
     <<"CFNT_stats5", "H2O_signal_Avg", "stats5", "">>,
     <<"CFNT_stats5", "amb_tmpr_Avg", "stats5", "">>,
     <<"CFNT_stats5", "amb_press_Avg", "stats5", "">>,
     <<"CFNT_stats5", "irga_samples_Tot", None, None>>,
     <<"CFNT_stats5", "irga_uptime", "stats5", "">>,
     <<"CFNT_stats5", "T_hmp_Avg", "stats5", "">>,
     <<"CFNT_stats5", "RH_hmp_Avg", "stats5", "">>,
     <<"CFNT_stats5", "e_hmp_Avg", "stats5", "">>,
     <<"CFNT_stats5", "e_sat_hmp_Avg", "stats5", "">>,
     <<"CFNT_stats5", "hmp_uptime", None, None>>,
     <<"CFNT_stats5", "Rn_Avg", "stats5", "">>,
     <<"CFNT_stats5", "Rn_meas_Avg", "stats5", "">>,
     <<"CFNT_stats5", "PAR_totflx_Tot", "stats5", "">>,
     <<"CFNT_stats5", "PAR_flxdens_Avg", "stats5", "">>,
     <<"CFNT_stats5", "Met1_wnd_spd", "stats5", "">>,
     <<"CFNT_stats5", "Met1_rslt_wnd_spd", "stats5", "">>,
     <<"CFNT_stats5", "Met1_wnd_dir", "stats5", "">>,
     <<"CFNT_stats5", "Met1_std_wnd_dir", "stats5", "">>,
     <<"CFNT_stats5", "Met1_uptime", None, None>>,
     <<"CFNT_stats5", "Rain_mm_Tot", "stats5", "">>,
     <<"CFNT_stats5", "panel_tmpr_Avg", "stats5", "">>,
     <<"CFNT_stats5", "batt_volt_Avg", "stats5", "">>,
     <<"CFNT_site_daily", "TIMESTAMP", "site_daily", "">>,
     <<"CFNT_site_daily", "RECORD", "site_daily", "">>,
     <<"CFNT_site_daily", "sonic_azimuth", "site_daily", "">>,
     <<"CFNT_site_daily", "latitude_a_Avg", "site_daily", "">>,
     <<"CFNT_site_daily", "latitude_b_Avg", "site_daily", "">>,
     <<"CFNT_site_daily", "longitude_a_Avg", "site_daily", "">>,
     <<"CFNT_site_daily", "longitude_b_Avg", "site_daily", "">>,
     <<"CFNT_site_daily", "latitude_a_Std", None, None>>,
     <<"CFNT_site_daily", "latitude_b_Std", None, None>>,
     <<"CFNT_site_daily", "longitude_a_Std", None, None>>,
     <<"CFNT_site_daily", "longitude_b_Std", None, None>>,
     <<"CFNT_site_daily", "magnetic_variation_Avg", "site_daily", "">>,
     <<"CFNT_site_daily", "magnetic_variation_Std", None, None>>,
     <<"CFNT_site_daily", "nmbr_satellites_Avg", "site_daily", "">>,
     <<"CFNT_site_daily", "altitude_Avg", "site_daily", "">>,
     <<"CFNT_site_daily", "altitude_Std", None, None>>,
     <<"CFNT_site_daily", "gps_ready_Min", "site_daily", "">>,
     <<"CFNT_site_daily", "max_clock_change", "site_daily", "">>,
     <<"CFNT_site_daily", "nmbr_clock_change", "site_daily", "">>,
     <<"CFNT_met_5min", "TIMESTAMP", "CFNT_stats5", "">>,
     <<"CFNT_met_5min", "RECORD", "CFNT_stats5", "">>,
     <<"CFNT_met_5min", "L", "CFNT_stats5", "">>,
     <<"CFNT_met_5min", "Hs", None, None>>,
     <<"CFNT_met_5min", "u_star", "CFNT_stats5", "">>,
     <<"CFNT_met_5min", "Ts_stdev", "CFNT_stats5", "Ts_Std">>,
     <<"CFNT_met_5min", "Uz_stdev", "CFNT_stats5", "Uz_Std">>,
     <<"CFNT_met_5min", "wnd_spd", "CFNT_stats5", "">>,
     <<"CFNT_met_5min", "rslt_wnd_spd", "CFNT_stats5", "">>,
     <<"CFNT_met_5min", "std_wnd_dir", "CFNT_stats5", "">>,
     <<"CFNT_met_5min", "wnd_dir_compass", "CFNT_stats5", "">>,
     <<"CFNT_met_5min", "Ts_Avg", "CFNT_stats5", "">>,
     <<"CFNT_met_5min", "sonic_samples_Tot", "CFNT_stats5", "">>,
     <<"CFNT_met_5min", "Fc_wpl", "CFNT_stats5", "">>,
     <<"CFNT_met_5min", "LE_wpl", "CFNT_stats5", "">>,
     <<"CFNT_met_5min", "Hc", "CFNT_stats5", "">>,
     <<"CFNT_met_5min", "CO2_stdev", "CFNT_stats5", "CO2_mg_m3_Std">>,
     <<"CFNT_met_5min", "H2O_stdev", "CFNT_stats5", "H2O_g_m3_Std">>,
     <<"CFNT_met_5min", "Tc_stdev", "CFNT_stats5", "Tc_Std">>,
     <<"CFNT_met_5min", "CO2_mean", "CFNT_stats5", "CO2_mg_m3_Avg">>,
     <<"CFNT_met_5min", "H2O_mean", "CFNT_stats5", "H2O_g_m3_Avg">>,
     <<"CFNT_met_5min", "amb_press_mean", "CFNT_stats5", "amb_press_Avg">>,
     <<"CFNT_met_5min", "Tc_mean", "CFNT_stats5", "Tc_Avg">>,
     <<"CFNT_met_5min", "CO2_sig_strgth_mean", "CFNT_stats5", "CO2_signal_Avg">>,
     <<"CFNT_met_5min", "H2O_sig_strgth_mean", "CFNT_stats5", "H2O_signal_Avg">>,
     <<"CFNT_met_5min", "T_hmp_mean", "CFNT_stats5", "T_hmp_Avg">>,
     <<"CFNT_met_5min", "RH_hmp_mean", "CFNT_stats5", "RH_hmp_Avg">>,
     <<"CFNT_met_5min", "Rn_Avg", "CFNT_stats5", "">>,
     <<"CFNT_met_5min", "Rn_meas_Avg", "CFNT_stats5", "">>,
     <<"CFNT_met_5min", "PAR_totflx_Tot", "CFNT_stats5", "">>,
     <<"CFNT_met_5min", "PAR_flxdens_Avg", "CFNT_stats5", "">>,
     <<"CFNT_met_5min", "034b_ws2", "CFNT_stats5", "Met1_wnd_spd">>,
     <<"CFNT_met_5min", "034b_wd2", None, None>>,
     <<"CFNT_met_5min", "034b_stdwd2", None, None>>,
     <<"CFNT_met_5min", "Rain_mm_Tot", "CFNT_stats5", "">>,
     <<"CFNT_met_5min", "latitude_a", None, None>>,
     <<"CFNT_met_5min", "latitude_b", None, None>>,
     <<"CFNT_met_5min", "longitude_a", None, None>>,
     <<"CFNT_met_5min", "longitude_b", None, None>>,
     <<"CFNT_met_5min", "magnetic_variation", None, None>>,
     <<"CFNT_met_5min", "altitude", None, None>>,
     <<"CFNT_met_5min", "max_clock_change", None, None>>,
     <<"CFNT_met_5min", "nmbr_clock_change", None, None>>,
     <<"CFNT_met_5min", "panel_tmpr_Avg", "CFNT_stats5", "">>,
     <<"CFNT_met_5min", "batt_volt_Avg", "CFNT_stats5", "">>,
     <<"extra_gas", "TIMESTAMP", None, None>>,
     <<"extra_gas", "RECORD", None, None>>,
     <<"extra_gas", "n2o_Avg", None, None>>,
     <<"extra_gas", "c_monoxide_Avg", None, None>>,
     <<"extra_gas", "ch4_Avg", None, None>>,
     <<"extra_gas", "co2_picarro_Avg", None, None>>,
     <<"extra_gas", "co2_mix_ratio_Avg", None, None>>,
     <<"extra_gas", "h2o_mix_ratio_Avg", None, None>>,
     <<"extra_gas", "034b_ws", None, None>>,
     <<"extra_gas", "034b_wd", None, None>>,
     <<"extra_gas", "034b_stdwd", None, None>>,
     <<"ts_data", "TIMESTAMP", "CFNT_tsdata", "">>,
     <<"ts_data", "RECORD", "CFNT_tsdata", "">>,
     <<"ts_data", "Ux", "CFNT_tsdata", "">>,
     <<"ts_data", "Uy", "CFNT_tsdata", "">>,
     <<"ts_data", "Uz", "CFNT_tsdata", "">>,
     <<"ts_data", "Ts", "CFNT_tsdata", "">>,
     <<"ts_data", "diag_sonic", "CFNT_tsdata", "">>,
     <<"ts_data", "atiUx", None, None>>,
     <<"ts_data", "atiUy", None, None>>,
     <<"ts_data", "atiUz", None, None>>,
     <<"ts_data", "atiTs", None, None>>,
     <<"ts_data", "CO2_molar", "", "co2_molar_density">>,
     <<"ts_data", "H2O_molar", "", "h2o_molar_density">>,
     <<"ts_data", "co2_molar_density", None, None>>,
     <<"ts_data", "h2o_molar_density", None, None>>,
     <<"ts_data", "co2_mix_ratio", "", "co2_molar_density">>,
     <<"ts_data", "h2o_mix_ratio", "", "h2o_molar_density">>,
     <<"ts_data", "n2o", "tsdata_extra", "lgr_n2o">>,
     <<"ts_data", "c_monoxide", "tsdata_extra", "lgr_co">>,
     <<"ts_data", "ch4", "tsdata_extra", "pic_ch4">>,
     <<"ts_data", "co2_picarro", "tsdata_extra", "pic_co2">>,
     <<"ts_data", "CO2", "CFNT_tsdata", "">>,
     <<"ts_data", "H2O", "CFNT_tsdata", "">>,
     <<"ts_data", "diag_irga", "CFNT_tsdata", "">>,
     <<"ts_data", "amb_tmpr", "CFNT_tsdata", "">>,
     <<"ts_data", "amb_press", "CFNT_tsdata", "">>,
     <<"ts_data", "CO2_sig_strgth", "CFNT_tsdata", "CO2_signal">>,
     <<"ts_data", "H2O_sig_strgth", "CFNT_tsdata", "H2O_signal">>,
     <<"flux", "TIMESTAMP", "CFNT_stats30", "">>,
     <<"flux", "RECORD", "CFNT_stats30", "">>,
     <<"flux", "l", "", "L">>,
     <<"flux", "L", "CFNT_stats30", "">>,
     <<"flux", "Hs", None, None>>,
     <<"flux", "tau", "CFNT_stats30", "">>,
     <<"flux", "u_star", "CFNT_stats30", "">>,
     <<"flux", "Ts_stdev", "CFNT_stats30", "Ts_Std">>,
     <<"flux", "Ts_Ux_cov", None, None>>,
     <<"flux", "Ts_Uy_cov", None, None>>,
     <<"flux", "Ts_Uz_cov", None, None>>,
     <<"flux", "Ux_stdev", None, None>>,
     <<"flux", "Ux_Uy_cov", None, None>>,
     <<"flux", "Ux_Uz_cov", None, None>>,
     <<"flux", "Uy_stdev", None, None>>,
     <<"flux", "Uy_Uz_cov", None, None>>,
     <<"flux", "Uz_stdev", "CFNT_stats30", "Uz_Std">>,
     <<"flux", "wnd_spd", "CFNT_stats30", "">>,
     <<"flux", "rslt_wnd_spd", "CFNT_stats30", "">>,
     <<"flux", "wnd_dir_sonic", None, None>>,
     <<"flux", "std_wnd_dir", "CFNT_stats30", "">>,
     <<"flux", "wnd_dir_compass", "CFNT_stats30", "">>,
     <<"flux", "Ux_Avg", None, None>>,
     <<"flux", "Uy_Avg", None, None>>,
     <<"flux", "Uz_Avg", None, None>>,
     <<"flux", "Ts_Avg", "CFNT_stats30", "">>,
     <<"flux", "sonic_azimuth", None, None>>,
     <<"flux", "sonic_samples_Tot", None, None>>,
     <<"flux", "no_sonic_head_Tot", None, None>>,
     <<"flux", "no_new_sonic_data_Tot", None, None>>,
     <<"flux", "amp_l_f_Tot", None, None>>,
     <<"flux", "amp_h_f_Tot", None, None>>,
     <<"flux", "sig_lck_f_Tot", None, None>>,
     <<"flux", "del_T_f_Tot", None, None>>,
     <<"flux", "aq_sig_f_Tot", None, None>>,
     <<"flux", "sonic_cal_err_f_Tot", None, None>>,
     <<"flux", "Fc_wpl", "CFNT_stats30", "">>,
     <<"flux", "LE_wpl", "CFNT_stats30", "">>,
     <<"flux", "Hc", "CFNT_stats30", "">>,
     <<"flux", "CO2_stdev", "CFNT_stats30", "CO2_mg_m3_Std">>,
     <<"flux", "CO2_Ux_cov", None, None>>,
     <<"flux", "CO2_Uy_cov", None, None>>,
     <<"flux", "CO2_Uz_cov", None, None>>,
     <<"flux", "H2O_stdev", "CFNT_stats30", "H2O_g_m3_Std">>,
     <<"flux", "H2O_Ux_cov", None, None>>,
     <<"flux", "H2O_Uy_cov", None, None>>,
     <<"flux", "H2O_Uz_cov", None, None>>,
     <<"flux", "Tc_stdev", "CFNT_stats30", "Tc_Std">>,
     <<"flux", "Tc_Ux_cov", None, None>>,
     <<"flux", "Tc_Uy_cov", None, None>>,
     <<"flux", "Tc_Uz_cov", None, None>>,
     <<"flux", "CO2_mean", "CFNT_stats30", "CO2_mg_m3_Avg">>,
     <<"flux", "H2O_mean", "CFNT_stats30", "H2O_g_m3_Avg">>,
     <<"flux", "amb_press_mean", "CFNT_stats30", "amb_press_Avg">>,
     <<"flux", "Tc_mean", "CFNT_stats30", "Tc_Avg">>,
     <<"flux", "rho_a_mean", None, None>>,
     <<"flux", "Fc_irga", None, None>>,
     <<"flux", "LE_irga", None, None>>,
     <<"flux", "CO2_wpl_LE", None, None>>,
     <<"flux", "CO2_wpl_H", None, None>>,
     <<"flux", "H2O_wpl_LE", None, None>>,
     <<"flux", "H2O_wpl_H", None, None>>,
     <<"flux", "irga_samples_Tot", None, None>>,
     <<"flux", "no_irga_head_Tot", None, None>>,
     <<"flux", "no_new_irga_data_Tot", None, None>>,
     <<"flux", "irga_bad_data_f_Tot", None, None>>,
     <<"flux", "gen_sys_fault_f_Tot", None, None>>,
     <<"flux", "sys_startup_f_Tot", None, None>>,
     <<"flux", "motor_spd_f_Tot", None, None>>,
     <<"flux", "tec_tmpr_f_Tot", None, None>>,
     <<"flux", "src_pwr_f_Tot", None, None>>,
     <<"flux", "src_tmpr_f_Tot", None, None>>,
     <<"flux", "src_curr_f_Tot", None, None>>,
     <<"flux", "irga_off_f_Tot", None, None>>,
     <<"flux", "irga_sync_f_Tot", None, None>>,
     <<"flux", "amb_tmpr_f_Tot", None, None>>,
     <<"flux", "amb_press_f_Tot", None, None>>,
     <<"flux", "CO2_I_f_Tot", None, None>>,
     <<"flux", "CO2_Io_f_Tot", None, None>>,
     <<"flux", "H2O_I_f_Tot", None, None>>,
     <<"flux", "H2O_Io_f_Tot", None, None>>,
     <<"flux", "CO2_Io_var_f_Tot", None, None>>,
     <<"flux", "H2O_Io_var_f_Tot", None, None>>,
     <<"flux", "CO2_sig_strgth_f_Tot", None, None>>,
     <<"flux", "H2O_sig_strgth_f_Tot", None, None>>,
     <<"flux", "CO2_sig_strgth_mean", "CFNT_stats30", "CO2_signal_Avg">>,
     <<"flux", "H2O_sig_strgth_mean", "CFNT_stats30", "H2O_signal_Avg">>,
     <<"flux", "T_hmp_mean", "CFNT_stats30", "T_hmp_Avg">>,
     <<"flux", "e_hmp_mean", "CFNT_stats30", "e_hmp_Avg">>,
     <<"flux", "e_sat_hmp_mean", "CFNT_stats30", "e_sat_hmp_Avg">>,
     <<"flux", "H2O_hmp_mean", None, None>>,
     <<"flux", "RH_hmp_mean", "CFNT_stats30", "RH_hmp_Avg">>,
     <<"flux", "rho_a_mean_hmp", None, None>>,
     <<"flux", "Rn_Avg", "CFNT_stats30", "">>,
     <<"flux", "Rn_meas_Avg", "CFNT_stats30", "">>,
     <<"flux", "par_totflx_Tot", "", "PAR_totflx_Tot">>,
     <<"flux", "PAR_totflx_Tot", "CFNT_stats30", "">>,
     <<"flux", "par_flxdens_Avg", "", "PAR_flxdens_Avg">>,
     <<"flux", "PAR_flxdens_Avg", "CFNT_stats30", "">>,
     <<"flux", "WS_ms_Avg", None, None>>,
     <<"flux", "WS_ms_WVc(1)", "", "034b_ws">>,
     <<"flux", "034b_ws", "CFNT_stats30", "Met1_wnd_spd">>,
     <<"flux", "WS_ms_WVc(2)", "", "034b_wd">>,
     <<"flux", "034b_wd", None, None>>,
     <<"flux", "WS_ms_WVc(3)", "", "034b_stdwd">>,
     <<"flux", "034b_stdwd", None, None>>,
     <<"flux", "ati_azimuth", None, None>>,
     <<"flux", "ati_ws", None, None>>,
     <<"flux", "ati_wd", None, None>>,
     <<"flux", "ati_stdwd", None, None>>,
     <<"flux", "atiUavg", None, None>>,
     <<"flux", "atiVavg", None, None>>,
     <<"flux", "atiWavg", None, None>>,
     <<"flux", "atitmpavg", None, None>>,
     <<"flux", "Rain_mm_Tot", "CFNT_stats30", "">>,
     <<"flux", "latitude_a", None, None>>,
     <<"flux", "latitude_b", None, None>>,
     <<"flux", "longitude_a", None, None>>,
     <<"flux", "longitude_b", None, None>>,
     <<"flux", "speed", None, None>>,
     <<"flux", "course", None, None>>,
     <<"flux", "magnetic_variation", None, None>>,
     <<"flux", "fix_quality", None, None>>,
     <<"flux", "nmbr_satellites", None, None>>,
     <<"flux", "altitude", None, None>>,
     <<"flux", "pps", None, None>>,
     <<"flux", "dt_since_gprmc", None, None>>,
     <<"flux", "gps_ready", None, None>>,
     <<"flux", "max_clock_change", None, None>>,
     <<"flux", "nmbr_clock_change", None, None>>,
     <<"flux", "panel_tmpr_Avg", "CFNT_stats30", "">>,
     <<"flux", "batt_volt_Avg", "CFNT_stats30", "">>,
     <<"flux", "slowsequence_Tot", None, None>>
  >>

(* table_definitions literal, tables.py lines 109-293 *)
BaseTableDefinitions ==
  [
    tsdata |-> <<
        "TIMESTAMP",
        "RECORD",
        "Ux",
        "Uy",
        "Uz",
        "Ts",
        "diag_sonic",
        "CO2",
        "H2O",
        "diag_irga",
        "amb_tmpr",
        "amb_press",
        "CO2_signal",
        "H2O_signal" >>,
    stats30 |-> <<
        "TIMESTAMP",
        "RECORD",
        "L",
        "u_star",
        "tau",
        "Fc_wpl",
        "LE_wpl",
        "Hc",
        "Ts_Avg",
        "Ts_Std",
        "Tc_Avg",
        "Uz_Std",
        "wnd_spd",
        "rslt_wnd_spd",
        "rslt_wnd_dir",
        "std_wnd_dir",
        "sonic_uptime",
        "CO2_ppm_Avg",
        "CO2_mg_m3_Avg",
        "CO2_mg_m3_Std",
        "CO2_signal_Avg",
        "H2O_g_kg_Avg",
        "H2O_g_m3_Avg",
        "H2O_g_m3_Std",
        "H2O_signal_Avg",
        "amb_tmpr_Avg",
        "amb_press_Avg",
        "irga_uptime",
        "T_hmp_Avg",
        "RH_hmp_Avg",
        "e_hmp_Avg",
        "e_sat_hmp_Avg",
        "Rn_Avg",
        "Rn_meas_Avg",
        "PAR_totflx_Tot",
        "PAR_flxdens_Avg",
        "Met1_wnd_spd",
        "Met1_rslt_wnd_spd",
        "Met1_rslt_wnd_dir",
        "Met1_std_wnd_dir",
        "Rain_mm_Tot",
        "soil_5TM_ID5_E_Avg",
        "soil_5TM_ID5_T_Avg",
        "soil_5TM_ID5_VWC_Avg",
        "soil_5TM_ID6_E_Avg",
        "soil_5TM_ID6_T_Avg",
        "soil_5TM_ID6_VWC_Avg",
        "soil_5TM_ID7_E_Avg",
        "soil_5TM_ID7_T_Avg",
        "soil_5TM_ID7_VWC_Avg",
        "soil_5TM_ID8_E_Avg",
        "soil_5TM_ID8_T_Avg",
        "soil_5TM_ID8_VWC_Avg",
        "soil_5TM_ID9_E_Avg",
        "soil_5TM_ID9_T_Avg",
        "soil_5TM_ID9_VWC_Avg",
        "soil_hfp1_heat_flux_Avg",
        "soil_hfp1_sensitivity",
        "soil_hfp2_heat_flux_Avg",
        "soil_hfp2_sensitivity",
        "panel_tmpr_Avg",
        "batt_volt_Avg" >>,
    site_daily |-> <<
        "TIMESTAMP",
        "RECORD",
        "latitude_Med",
        "longitude_Med",
        "magnetic_variation_Med",
        "nmbr_satellites_Avg",
        "altitude_Med",
        "altitude_Avg",
        "gps_ready_Min",
        "max_clock_change",
        "nmbr_clock_change",
        "batt_volt_Min",
        "batt_volt_TMn",
        "batt_volt_Max",
        "batt_volt_TMx",
        "T_hmp_Min",
        "T_hmp_TMn",
        "T_hmp_Max",
        "T_hmp_TMx" >>,
    diagnostics |-> <<
        "TIMESTAMP",
        "RECORD",
        "total_scans",
        "scans_1hz",
        "scans_5s",
        "skipped_10hz_scans",
        "skipped_1hz_scans",
        "skipped_5s_scans",
        "watchdog_errors" >>,
    site_info |-> <<
        "TIMESTAMP",
        "RECORD",
        "UTC_offset",
        "sonic_azimuth",
        "NRLite2_sens",
        "LI190SB_sens",
        "HFP_1_sens",
        "HFP_2_sens",
        "CompileResults",
        "CardStatus",
        "RunSig",
        "ProgSig",
        "GitRepoTag",
        "hfp_installed" >>,
    extra_info |-> <<
        "TIMESTAMP",
        "RECORD",
        "Decagon_NDVI_installed",
        "Decagon_PRI_installed",
        "LGR_n2oco_installed",
        "lgr_n2o_mult",
        "lgr_n2o_offset",
        "lgr_co_mult",
        "lgr_co_offset",
        "lgr_h2o_mult",
        "lgr_h2o_offset",
        "Picarro_co2ch4_installed",
        "pic_co2_mult",
        "pic_co2_offset",
        "pic_ch4_mult",
        "pic_ch4_offset",
        "pic_h2o_mult",
        "pic_h2o_offset" >>,
    tsdata_extra |-> <<
        "TIMESTAMP",
        "RECORD",
        "lgr_n2o",
        "lgr_co",
        "lgr_h2o",
        "pic_co2",
        "pic_ch4",
        "pic_h2o" >>,
    stats30_ui |-> <<
        "TIMESTAMP",
        "RECORD",
        "dec_ndvi_up1_Avg",
        "dec_ndvi_up2_Avg",
        "dec_ndvi_dn1_Avg",
        "dec_ndvi_dn2_Avg",
        "dec_pri_up1_Avg",
        "dec_pri_up2_Avg",
        "dec_pri_dn1_Avg",
        "dec_pri_dn2_Avg",
        "tblcalls_Tot" >>,
    stats30_6rad |-> <<
        "TIMESTAMP",
        "RECORD",
        "dec_6rad_uplook_Avg(1)",
        "dec_6rad_uplook_Avg(2)",
        "dec_6rad_uplook_Avg(3)",
        "dec_6rad_uplook_Avg(4)",
        "dec_6rad_uplook_Avg(5)",
        "dec_6rad_uplook_Avg(6)",
        "dec_6rad_dnlook_Avg(1)",
        "dec_6rad_dnlook_Avg(2)",
        "dec_6rad_dnlook_Avg(3)",
        "dec_6rad_dnlook_Avg(4)",
        "dec_6rad_dnlook_Avg(5)",
        "dec_6rad_dnlook_Avg(6)",
        "tblcalls_Tot" >>
  ]

(* every name of the model in the order of str.__cmp__ (byte order), which sorted() uses *)
StringOrder ==
  <<
     "034b_stdwd", "034b_stdwd2", "034b_wd", "034b_wd2",
     "034b_ws", "034b_ws2", "CFNT_met_5min", "CFNT_site_daily",
     "CFNT_stats30", "CFNT_stats5", "CFNT_tsdata", "CO2",
     "CO2_I_f_Tot", "CO2_Io_f_Tot", "CO2_Io_var_f_Tot", "CO2_Ux_cov",
     "CO2_Uy_cov", "CO2_Uz_cov", "CO2_mean", "CO2_mg_m3_Avg",
     "CO2_mg_m3_Std", "CO2_molar", "CO2_ppm_Avg", "CO2_ppm_Avg_Avg",
     "CO2_ppm_Std", "CO2_sig_strgth", "CO2_sig_strgth_f_Tot", "CO2_sig_strgth_mean",
     "CO2_signal", "CO2_signal_Avg", "CO2_stdev", "CO2_wpl_H",
     "CO2_wpl_LE", "CardStatus", "CompileResults", "Dec_6rad_installed",
     "Decagon_NDVI_installed", "Decagon_PRI_installed", "Fc_irga", "Fc_wpl",
     "GitRepoTag", "H2O", "H2O_I_f_Tot", "H2O_Io_f_Tot",
     "H2O_Io_var_f_Tot", "H2O_Ux_cov", "H2O_Uy_cov", "H2O_Uz_cov",
     "H2O_g_kg_Avg", "H2O_g_kg_Std", "H2O_g_m3_Avg", "H2O_g_m3_Std",
     "H2O_hmp_mean", "H2O_mean", "H2O_molar", "H2O_sig_strgth",
     "H2O_sig_strgth_f_Tot", "H2O_sig_strgth_mean", "H2O_signal", "H2O_signal_Avg",
     "H2O_stdev", "H2O_wpl_H", "H2O_wpl_LE", "HFP_1_sens",
     "HFP_2_sens", "Hc", "Hs", "L",
     "LE_irga", "LE_wpl", "LGR_n2o_co_installed", "LGR_n2oco_installed",
     "LI190SB_sens", "Met1_rslt_wnd_dir", "Met1_rslt_wnd_spd", "Met1_std_wnd_dir",
     "Met1_uptime", "Met1_wnd_dir", "Met1_wnd_spd", "NRLite2_sens",
     "PAR_flxdens_Avg", "PAR_totflx_Tot", "Pic_co2_ch4_installed", "Picarro_co2ch4_installed",
     "ProgSig", "RECORD", "RH_hmp_Avg", "RH_hmp_mean",
     "Rain_mm_Tot", "Rn_Avg", "Rn_meas_Avg", "RunSig",
     "SENSOR_DEC_5TM", "SENSOR_DEC_6RAD", "SENSOR_HFP01SC", "SENSOR_LGR_N2OCO",
     "SENSOR_PIC_CO2CH4", "T", "TIMESTAMP", "T_hmp_Avg",
     "T_hmp_Max", "T_hmp_Min", "T_hmp_TMn", "T_hmp_TMx",
     "T_hmp_mean", "Tc_Avg", "Tc_Std", "Tc_Ux_cov",
     "Tc_Uy_cov", "Tc_Uz_cov", "Tc_mean", "Tc_stdev",
     "Ts", "Ts_Avg", "Ts_Std", "Ts_Ux_cov",
     "Ts_Uy_cov", "Ts_Uz_cov", "Ts_stdev", "U",
     "UTC_offset", "Ux", "Ux_Avg", "Ux_Uy_cov",
     "Ux_Uz_cov", "Ux_stdev", "Uy", "Uy_Avg",
     "Uy_Uz_cov", "Uy_stdev", "Uz", "Uz_Avg",
     "Uz_Std", "Uz_stdev", "WS_ms_Avg", "WS_ms_WVc(1)",
     "WS_ms_WVc(2)", "WS_ms_WVc(3)", "X", "Y",
     "altitude", "altitude_Avg", "altitude_Med", "altitude_Std",
     "amb_press", "amb_press_Avg", "amb_press_f_Tot", "amb_press_mean",
     "amb_tmpr", "amb_tmpr_Avg", "amb_tmpr_f_Tot", "amp_h_f_Tot",
     "amp_l_f_Tot", "aq_sig_f_Tot", "atiTs", "atiUavg",
     "atiUx", "atiUy", "atiUz", "atiVavg",
     "atiWavg", "ati_azimuth", "ati_stdwd", "ati_wd",
     "ati_ws", "atitmpavg", "batt_volt_Avg", "batt_volt_Max",
     "batt_volt_Min", "batt_volt_TMn", "batt_volt_TMx", "c_monoxide",
     "c_monoxide_Avg", "ch4", "ch4_Avg", "co2_mix_ratio",
     "co2_mix_ratio_Avg", "co2_molar_density", "co2_picarro", "co2_picarro_Avg",
     "course", "cov_co_Uz", "cov_n2o_Uz", "dec_6rad_dn_Avg(1)",
     "dec_6rad_dn_Avg(2)", "dec_6rad_dn_Avg(3)", "dec_6rad_dn_Avg(4)", "dec_6rad_dn_Avg(5)",
     "dec_6rad_dn_Avg(6)", "dec_6rad_dnlook_Avg(1)", "dec_6rad_dnlook_Avg(2)", "dec_6rad_dnlook_Avg(3)",
     "dec_6rad_dnlook_Avg(4)", "dec_6rad_dnlook_Avg(5)", "dec_6rad_dnlook_Avg(6)", "dec_6rad_up_Avg(1)",
     "dec_6rad_up_Avg(2)", "dec_6rad_up_Avg(3)", "dec_6rad_up_Avg(4)", "dec_6rad_up_Avg(5)",
     "dec_6rad_up_Avg(6)", "dec_6rad_uplook_Avg(1)", "dec_6rad_uplook_Avg(2)", "dec_6rad_uplook_Avg(3)",
     "dec_6rad_uplook_Avg(4)", "dec_6rad_uplook_Avg(5)", "dec_6rad_uplook_Avg(6)", "dec_ndvi_dn1_Avg",
     "dec_ndvi_dn2_Avg", "dec_ndvi_up1_Avg", "dec_ndvi_up2_Avg", "dec_pri_dn1_Avg",
     "dec_pri_dn2_Avg", "dec_pri_up1_Avg", "dec_pri_up2_Avg", "del_T_f_Tot",
     "diag_irga", "diag_sonic", "diagnostics", "dt_since_gprmc",
     "e_hmp_Avg", "e_hmp_mean", "e_sat_hmp_Avg", "e_sat_hmp_mean",
     "extra_gas", "extra_info", "fix_quality", "flux",
     "gen_sys_fault_f_Tot", "gps_ready", "gps_ready_Min", "h2o_mix_ratio",
     "h2o_mix_ratio_Avg", "h2o_molar_density", "hfp1_samples_Tot", "hfp2_samples_Tot",
     "hfp_installed", "hmp_uptime", "irga_bad_data_f_Tot", "irga_off_f_Tot",
     "irga_samples_Tot", "irga_sync_f_Tot", "irga_uptime", "l",
     "latitude", "latitude_Med", "latitude_a", "latitude_a_Avg",
     "latitude_a_Std", "latitude_b", "latitude_b_Avg", "latitude_b_Std",
     "lgr_co", "lgr_co_Avg", "lgr_co_Std", "lgr_co_mult",
     "lgr_co_offset", "lgr_h2o", "lgr_h2o_mult", "lgr_h2o_offset",
     "lgr_n2o", "lgr_n2o_Avg", "lgr_n2o_Std", "lgr_n2o_co_uptime",
     "lgr_n2o_mult", "lgr_n2o_offset", "lgr_uptime", "longitude",
     "longitude_Med", "longitude_a", "longitude_a_Avg", "longitude_a_Std",
     "longitude_b", "longitude_b_Avg", "longitude_b_Std", "magnetic_variation",
     "magnetic_variation_Avg", "magnetic_variation_Med", "magnetic_variation_Std", "max_clock_change",
     "motor_spd_f_Tot", "n2o", "n2o_Avg", "nmbr_clock_change",
     "nmbr_satellites", "nmbr_satellites_Avg", "no_irga_head_Tot", "no_new_irga_data_Tot",
     "no_new_sonic_data_Tot", "no_sonic_head_Tot", "panel_tmpr_Avg", "par_flxdens_Avg",
     "par_totflx_Tot", "pic_ch4", "pic_ch4_mult", "pic_ch4_offset",
     "pic_co2", "pic_co2_mult", "pic_co2_offset", "pic_h2o",
     "pic_h2o_mult", "pic_h2o_offset", "pps", "rho_a_mean",
     "rho_a_mean_hmp", "rslt_wnd_dir", "rslt_wnd_spd", "scans_1hz",
     "scans_5s", "sig_lck_f_Tot", "site_daily", "site_info",
     "skipped_10hz_scans", "skipped_1hz_scans", "skipped_5s_scans", "slowsequence_Tot",
     "soil_5TM_ID5_E_Avg", "soil_5TM_ID5_T_Avg", "soil_5TM_ID5_VWC_Avg", "soil_5TM_ID5_epsilon_Avg",
     "soil_5TM_ID6_E_Avg", "soil_5TM_ID6_T_Avg", "soil_5TM_ID6_VWC_Avg", "soil_5TM_ID6_epsilon_Avg",
     "soil_5TM_ID7_E_Avg", "soil_5TM_ID7_T_Avg", "soil_5TM_ID7_VWC_Avg", "soil_5TM_ID7_epsilon_Avg",
     "soil_5TM_ID8_E_Avg", "soil_5TM_ID8_T_Avg", "soil_5TM_ID8_VWC_Avg", "soil_5TM_ID8_epsilon_Avg",
     "soil_5TM_ID9_E_Avg", "soil_5TM_ID9_T_Avg", "soil_5TM_ID9_VWC_Avg", "soil_5TM_ID9_epsilon_Avg",
     "soil_hfp1_heat_flux_Avg", "soil_hfp1_sensitivity", "soil_hfp2_heat_flux_Avg", "soil_hfp2_sensitivity",
     "sonic_azimuth", "sonic_cal_err_f_Tot", "sonic_samples_Tot", "sonic_uptime",
     "speed", "src_curr_f_Tot", "src_pwr_f_Tot", "src_tmpr_f_Tot",
     "stats30", "stats30_6rad", "stats30_extra", "stats30_hfp",
     "stats30_n2o_co", "stats30_soil", "stats30_ui", "stats5",
     "stats5_6rad", "stats5_extra", "stats5_hfp", "stats5_n2o_co",
     "stats5_soil", "stats5_ui", "std_wnd_dir", "sys_startup_f_Tot",
     "tau", "tblcalls_Tot", "tec_tmpr_f_Tot", "total_scans",
     "ts_data", "tsdata", "tsdata_extra", "tsdata_n2o_co",
     "u_star", "watchdog_errors", "wnd_dir_compass", "wnd_dir_sonic",
     "wnd_spd"
  >>

(***************************************************************************)
(* Helpers for Python's built-in types                                     *)
(***************************************************************************)
Range(s) == {s[i] : i \in DOMAIN s}

(* a dict display: one value per key, the last entry of a repeated key wins *)
DictOf(entries) ==
  [k \in {<<e[1], e[2]>> : e \in Range(entries)} |->
     LET i == CHOOSE i \in DOMAIN entries :
                /\ <<entries[i][1], entries[i][2]>> = k
                /\ \A j \in DOMAIN entries :
                      <<entries[j][1], entries[j][2]>> = k => j <= i
     IN  <<entries[i][3], entries[i][4]>>]

(* sorted(d) of a dict d whose keys are the set S: the keys in ascending  *)
(* order, tuples compared by their first items, then by their second items *)
sorted(S) ==
  LET IsTable(t) == \E k \in S : k[1] = t
      tbls == SelectSeq(StringOrder, IsTable)
      Row(t) == LET IsColumn(c) == <<t, c>> \in S
                    cs == SelectSeq(StringOrder, IsColumn)
                IN  [i \in DOMAIN cs |-> <<t, cs[i]>>]
      RECURSIVE Rows(_)
      Rows(n) == IF n = 0 THEN <<>> ELSE Rows(n - 1) \o Row(tbls[n])
  IN  Rows(Len(tbls))

(* class hierarchy of the exceptions involved; ColumnNotFoundError derives *)
(* from Exception, not from KeyError                                       *)
ExceptionBase ==
  [ColumnNotFoundError |-> "Exception",
   KeyError            |-> "LookupError",
   LookupError         |-> "StandardError",
   RuntimeError        |-> "StandardError",
   StandardError       |-> "Exception",
   Exception           |-> "BaseException"]

RECURSIVE IsSubclass(_, _)
IsSubclass(c, d) ==
  \/ c = d
  \/ c \in DOMAIN ExceptionBase /\ IsSubclass(ExceptionBase[c], d)

(***************************************************************************)
(* The shipped tables                                                      *)
(***************************************************************************)
(* variant of ShippedColAlias: the entry of ('stats30', 'L') is missing *)
ShippedColAlias_EntryMissing ==
  DictOf(SelectSeq(ShippedEntries, LAMBDA e : <<e[1], e[2]>> # <<"stats30", "L">>))

ShippedColAlias == DictOf(ShippedEntries)

(* variant of ShippedTableDefinitions: stats5 copied from the wrong table *)
ShippedTableDefinitions_WrongCopy ==
  [t \in DOMAIN BaseTableDefinitions \cup {"stats5", "stats5_6rad", "stats5_ui"} |->
     CASE t = "stats5"      -> BaseTableDefinitions["stats30_6rad"]
       [] t = "stats5_6rad" -> BaseTableDefinitions["stats30_6rad"]
       [] t = "stats5_ui"   -> BaseTableDefinitions["stats30_ui"]
       [] OTHER             -> BaseTableDefinitions[t]]

(* the literal plus the three copies made after it *)
ShippedTableDefinitions ==
  [t \in DOMAIN BaseTableDefinitions \cup {"stats5", "stats5_6rad", "stats5_ui"} |->
     CASE t = "stats5"      -> BaseTableDefinitions["stats30"]
       [] t = "stats5_6rad" -> BaseTableDefinitions["stats30_6rad"]
       [] t = "stats5_ui"   -> BaseTableDefinitions["stats30_ui"]
       [] OTHER             -> BaseTableDefinitions[t]]

(* the (table, column) pairs a table definition lists *)
SchemaPairs(tdefs) ==
  UNION {{<<t, tdefs[t][i]>> : i \in DOMAIN tdefs[t]} : t \in DOMAIN tdefs}

(***************************************************************************)
(* Generated tables: every alias table of at most MaxKeys entries over the *)
(* generated names, and every definition of table "T"                      *)
(***************************************************************************)
GenAliasTables ==
  UNION {[K -> GenValues] : K \in {S \in SUBSET GenIdentities : Cardinality(S) <= MaxKeys}}

GenTableDefinitions ==
  {[t \in {} |-> <<>>],
   [t \in {"T"} |-> <<"X">>],
   [t \in {"T"} |-> <<"Y">>],
   [t \in {"T"} |-> <<"X", "Y">>],
   [t \in {"T"} |-> <<"Y", "X">>]}

(***************************************************************************)
(* Outcomes of a call                                                      *)
(***************************************************************************)
NoOutcome == [kind |-> "none", exc |-> None, table |-> None, column |-> None]

Return(t, c) == [kind |-> "return", exc |-> None, table |-> t, column |-> c]

Raise(e) == [kind |-> "raise", exc |-> e, table |-> None, column |-> None]

Recurse(t, c) == [kind |-> "call", exc |-> None, table |-> t, column |-> c]

(***************************************************************************)
(* Variants of current_names, each with one slip in one branch             *)
(***************************************************************************)
(* a missing key gives (None, None) instead of ColumnNotFoundError *)
current_names_MissDefault(alias, table, column) ==
  IF <<table, column>> \notin DOMAIN alias
  THEN Return(None, None)
  ELSE LET tbl == alias[<<table, column>>][1]
           col == alias[<<table, column>>][2]
       IN  IF <<tbl, col>> = <<None, None>> THEN Return(None, None)
           ELSE IF <<tbl, col>> = <<"", "">> THEN Return(table, column)
           ELSE IF tbl = "" THEN Recurse(table, col)
           ELSE IF col = "" THEN Recurse(tbl, column)
           ELSE Recurse(tbl, col)

(* a value with a None in either field counts as removed *)
current_names_AnyNoneRemoved(alias, table, column) ==
  IF <<table, column>> \notin DOMAIN alias
  THEN Raise("ColumnNotFoundError")
  ELSE LET tbl == alias[<<table, column>>][1]
           col == alias[<<table, column>>][2]
       IN  IF tbl = None \/ col = None THEN Return(None, None)
           ELSE IF <<tbl, col>> = <<"", "">> THEN Return(table, column)
           ELSE IF tbl = "" THEN Recurse(table, col)
           ELSE IF col = "" THEN Recurse(tbl, column)
           ELSE Recurse(tbl, col)

(* the test for (None, None) is left out *)
current_names_NoRemovedTest(alias, table, column) ==
  IF <<table, column>> \notin DOMAIN alias
  THEN Raise("ColumnNotFoundError")
  ELSE LET tbl == alias[<<table, column>>][1]
           col == alias[<<table, column>>][2]
       IN  IF <<tbl, col>> = <<"", "">> THEN Return(table, column)
           ELSE IF tbl = "" THEN Recurse(table, col)
           ELSE IF col = "" THEN Recurse(tbl, column)
           ELSE Recurse(tbl, col)

(* a current entry returns the value (tbl, col) instead of the key *)
current_names_ReturnsValue(alias, table, column) ==
  IF <<table, column>> \notin DOMAIN alias
  THEN Raise("ColumnNotFoundError")
  ELSE LET tbl == alias[<<table, column>>][1]
           col == alias[<<table, column>>][2]
       IN  IF <<tbl, col>> = <<None, None>> THEN Return(None, None)
           ELSE IF <<tbl, col>> = <<"", "">> THEN Return(tbl, col)
           ELSE IF tbl = "" THEN Recurse(table, col)
           ELSE IF col = "" THEN Recurse(tbl, column)
           ELSE Recurse(tbl, col)

(* a blank table is passed on instead of the table of the key *)
current_names_BlankTableKept(alias, table, column) ==
  IF <<table, column>> \notin DOMAIN alias
  THEN Raise("ColumnNotFoundError")
  ELSE LET tbl == alias[<<table, column>>][1]
           col == alias[<<table, column>>][2]
       IN  IF <<tbl, col>> = <<None, None>> THEN Return(None, None)
           ELSE IF <<tbl, col>> = <<"", "">> THEN Return(table, column)
           ELSE IF tbl = "" THEN Recurse(tbl, col)
           ELSE IF col = "" THEN Recurse(tbl, column)
           ELSE Recurse(tbl, col)

(* a blank column is passed on instead of the column of the key *)
current_names_BlankColumnKept(alias, table, column) ==
  IF <<table, column>> \notin DOMAIN alias
  THEN Raise("ColumnNotFoundError")
  ELSE LET tbl == alias[<<table, column>>][1]
           col == alias[<<table, column>>][2]
       IN  IF <<tbl, col>> = <<None, None>> THEN Return(None, None)
           ELSE IF <<tbl, col>> = <<"", "">> THEN Return(table, column)
           ELSE IF tbl = "" THEN Recurse(table, col)
           ELSE IF col = "" THEN Recurse(tbl, col)
           ELSE Recurse(tbl, col)

(* a value naming both table and column is returned, not looked up again *)
current_names_NoFullRedirect(alias, table, column) ==
  IF <<table, column>> \notin DOMAIN alias
  THEN Raise("ColumnNotFoundError")
  ELSE LET tbl == alias[<<table, column>>][1]
           col == alias[<<table, column>>][2]
       IN  IF <<tbl, col>> = <<None, None>> THEN Return(None, None)
           ELSE IF <<tbl, col>> = <<"", "">> THEN Return(table, column)
           ELSE IF tbl = "" THEN Recurse(table, col)
           ELSE IF col = "" THEN Recurse(tbl, column)
           ELSE Return(tbl, col)

(***************************************************************************)
(* current_names: the body of one invocation.  It returns, raises, or      *)
(* makes the nested call whose value it returns unchanged.                 *)
(***************************************************************************)
current_names(alias, table, column) ==
  IF <<table, column>> \notin DOMAIN alias
  THEN Raise("ColumnNotFoundError")
  ELSE LET tbl == alias[<<table, column>>][1]
           col == alias[<<table, column>>][2]
       IN  IF <<tbl, col>> = <<None, None>> THEN Return(None, None)
           ELSE IF <<tbl, col>> = <<"", "">> THEN Return(table, column)
           ELSE IF tbl = "" THEN Recurse(table, col)
           ELSE IF col = "" THEN Recurse(tbl, column)
           ELSE Recurse(tbl, col)

(* a complete call of current_names made while `frames` of its frames are  *)
(* already active                                                          *)
RECURSIVE Resolve(_, _, _, _)
Resolve(alias, table, column, frames) ==
  LET r == current_names(alias, table, column)
  IN  IF r.kind # "call" THEN r
      ELSE IF frames + 1 >= RecursionLimit THEN Raise("RuntimeError")
      ELSE Resolve(alias, r.table, r.column, frames + 1)

(***************************************************************************)
(* The self-test: what it prints and the order in which the second pass    *)
(* visits table_definitions                                                *)
(***************************************************************************)
(* a print statement: the fixed text and the items formatted into it *)
Printed(text, items) == [text |-> text, items |-> items]

(* str(ex) of the exceptions that reach the handlers of the self-test *)
ExcText(exc) ==
  IF exc = "RuntimeError" THEN "maximum recursion depth exceeded" ELSE ""

(* the orders in which a dict with the keys of d may be iterated; the      *)
(* order of a dict is arbitrary: the rotations of the sorted keys          *)
DictOrders(d) ==
  LET IsKey(t) == t \in DOMAIN d
      names == SelectSeq(StringOrder, IsKey)
      n == Len(names)
  IN  IF n = 0 THEN {<<>>}
      ELSE {[i \in 1..n |-> names[((i + k - 1) % n) + 1]] : k \in 0..(n - 1)}

(* the (tbl, col) pairs in the order of the two nested loops *)
RECURSIVE DefPairs(_, _)
DefPairs(tdefs, order) ==
  IF order = <<>> THEN <<>>
  ELSE [i \in DOMAIN tdefs[Head(order)] |-> <<Head(order), tdefs[Head(order)][i]>>]
         \o DefPairs(tdefs, Tail(order))

(***************************************************************************)
(* Data frames: the columns in order and the cells of each column.  A cell *)
(* is a string, or NaN where the source has no value.                      *)
(***************************************************************************)
NaN == "NaN"

NoFrame == [columns |-> <<>>, data |-> <<>>]

(* the processing of the file has not ended *)
NoEnd == [kind |-> "none", exc |-> None]

VARIABLES
  col_alias,               \* the alias dict
  table_definitions,       \* table name -> list of column names
  historical_table_names,  \* table names occurring in the keys of col_alias
  pc,                      \* "idle", "current_names", "_verify_col_alias", "done"
  stack,                   \* arguments of the active current_names frames
  lookups,                 \* the identities looked up so far by the call
  result,                  \* outcome of the call of current_names
  vkeys,                   \* keys _verify_col_alias has still to visit
  errs,                    \* identities _verify_col_alias has reported
  verdict,                 \* outcome of _verify_col_alias
  vdefs,                   \* pairs _verify_table_definitions has still to visit
  errmsg,                  \* defects _verify_table_definitions has reported
  verdict2,                \* outcome of _verify_table_definitions
  stdout,                  \* what the self-test has printed
  outcomes,                \* <<identity, outcome>> of the calls made earlier
  workers,                 \* per worker: the call of current_names it is making
  verbose,                 \* __name__ == '__main__' and args.verbose
  fpc,                     \* "idle", "columns", "tables", "done": position in _homogenize
  was_tblname,             \* table name read from the header of the source file
  rawdf,                   \* the source file as read: its columns and their cells
  todo,                    \* columns the first loop of _standardize_df has still to visit
  newdfs,                  \* resolved table -> resolved column -> cells
  pending,                 \* tables of newdfs the second loop has still to visit
  outdfs,                  \* output table -> its columns and their cells
  msgs,                    \* the calls of __msg
  fresult,                 \* how the processing of the file ended
  spc,                     \* "idle", "reading", "done": position in split_toa5
  tfile,                   \* lines of the source file not yet read
  max_lines,               \* argument max_lines
  hdr_lines,               \* argument hdr_lines
  hdr,                     \* the header lines read
  towrite,                 \* lines read since the last chunk was written
  lineno,                  \* line counter of split_toa5
  partno,                  \* number of the next output file
  results,                 \* the list split_toa5 returns
  outfiles,                \* the files written, in order: <<name, lines>>
  source_file,             \* the source of split_toa5: its lines, whether it exists
  wpc,                     \* position in the writing loop of _homogenize
  baled,                   \* argument baled
  site_code,               \* site code read from the source file
  os_windows,              \* the platform is Windows: WindowsError is defined
  stdfs,                   \* what _standardize_df returned: table name -> table
  wleft,                   \* tables of stdfs the outer loop has still to visit
  newname,                 \* table name of the outer loop
  wtables,                 \* tables of _prep_df the inner loop has still to visit
  wtable,                  \* the table being written
  outpath,                 \* name of the output file
  tempname,                \* name of the temporary file
  disk0,                   \* the files when the writing loop began
  disk,                    \* the files: name -> header line and rows
  wresult,                 \* how the writing loop ended
  bpc,                     \* position in process_new_telemetry_data
  new_files,               \* the telemetry files found, by name
  unprocessed,             \* names the first loop has still to visit
  to_remove,               \* the list to_remove
  undeleted,               \* names the second loop has still to visit
  telemetry,               \* names of the files in the telemetry directory
  log,                     \* the records of logger.error
  bresult                  \* how process_new_telemetry_data ended

vars == <<col_alias, table_definitions, historical_table_names, pc, stack,
          lookups, result, vkeys, errs, verdict, vdefs, errmsg, verdict2, stdout,
          outcomes, workers, verbose, fpc, was_tblname, rawdf, todo, newdfs, pending,
          outdfs, msgs, fresult, spc, tfile, max_lines, hdr_lines, hdr, towrite,
          lineno, partno, results, outfiles, source_file, wpc, baled, site_code,
          os_windows, stdfs, wleft, newname, wtables, wtable, outpath, tempname, disk0,
          disk, wresult, bpc, new_files, unprocessed, to_remove, undeleted, telemetry,
          log, bresult>>

(* the workers that call current_names side by side *)
Workers == {"w1", "w2"}

IdleWorker == [pc |-> "idle", asked |-> <<None, None>>, stack |-> <<>>, result |-> NoOutcome]

(* the state of _homogenize and _standardize_df *)
homogenizer == <<verbose, fpc, was_tblname, rawdf, todo, newdfs, pending, outdfs, msgs, fresult>>

(* the state of split_toa5 *)
splitter == <<spc, tfile, max_lines, hdr_lines, hdr, towrite, lineno, partno, results,
              outfiles, source_file>>

(* the state of _homogenize and _standardize_df without the messages *)
standardizer == <<fpc, was_tblname, rawdf, todo, newdfs, pending, outdfs, fresult>>

(* the state of the writing loop of _homogenize *)
writer == <<wpc, baled, site_code, os_windows, stdfs, wleft, newname, wtables, wtable,
            outpath, tempname, disk0, disk, wresult>>

(* the state of process_new_telemetry_data *)
batch == <<bpc, new_files, unprocessed, to_remove, undeleted, telemetry, log, bresult>>

(* the state of the other scripts *)
others == <<splitter, writer, batch>>

(* the state outside the single call and the self-test *)
beyond == <<outcomes, workers, homogenizer, others>>

(* the state of the single call and of the self-test *)
single == <<pc, stack, lookups, result>>

selftest == <<vkeys, errs, verdict, vdefs, errmsg, verdict2, stdout>>

(* the state of the second pass of the self-test *)
pass2 == <<vdefs, errmsg, verdict2>>

tables == <<col_alias, table_definitions, historical_table_names>>

NoVerdict == [kind |-> "none", exc |-> None, value |-> FALSE]

InitRest ==
  /\ historical_table_names = {k[1] : k \in DOMAIN col_alias}
  /\ pc = "idle"
  /\ stack = <<>>
  /\ lookups = <<>>
  /\ result = NoOutcome
  /\ vkeys = <<>>
  /\ errs = <<>>
  /\ verdict = NoVerdict
  /\ vdefs = <<>>
  /\ errmsg = <<>>
  /\ verdict2 = NoVerdict
  /\ stdout = <<>>
  /\ outcomes = {}
  /\ workers = [w \in Workers |-> IdleWorker]
  /\ verbose = FALSE
  /\ fpc = "idle"
  /\ was_tblname = None
  /\ rawdf = NoFrame
  /\ todo = <<>>
  /\ newdfs = <<>>
  /\ pending = {}
  /\ outdfs = <<>>
  /\ msgs = <<>>
  /\ fresult = NoEnd
  /\ spc = "idle"
  /\ tfile = <<>>
  /\ max_lines = 0
  /\ hdr_lines = 0
  /\ hdr = <<>>
  /\ towrite = <<>>
  /\ lineno = 0
  /\ partno = 0
  /\ results = <<>>
  /\ outfiles = <<>>
  /\ source_file = [lines |-> <<>>, exists |-> FALSE]
  /\ wpc = "idle"
  /\ baled = FALSE
  /\ site_code = None
  /\ os_windows = FALSE
  /\ stdfs = <<>>
  /\ wleft = {}
  /\ newname = None
  /\ wtables = <<>>
  /\ wtable = NoFrame
  /\ outpath = ""
  /\ tempname = ""
  /\ disk0 = <<>>
  /\ disk = <<>>
  /\ wresult = NoEnd
  /\ bpc = "idle"
  /\ new_files = <<>>
  /\ unprocessed = <<>>
  /\ to_remove = <<>>
  /\ undeleted = <<>>
  /\ telemetry = {}
  /\ log = <<>>
  /\ bresult = NoEnd

InitShipped ==
  /\ col_alias = ShippedColAlias
  /\ table_definitions = ShippedTableDefinitions
  /\ InitRest

InitGenerated ==
  /\ col_alias \in GenAliasTables
  /\ table_definitions \in GenTableDefinitions
  /\ InitRest

Init == InitShipped \/ InitGenerated

(* the identities a caller may ask for *)
Inputs == DOMAIN col_alias \cup SchemaPairs(table_definitions) \cup GenIdentities

(* a caller invokes current_names(table, column) *)
Call(table, column) ==
  /\ pc = "idle"
  /\ pc' = "current_names"
  /\ stack' = <<<<table, column>>>>
  /\ UNCHANGED <<tables, lookups, result, vkeys, errs, verdict, pass2, stdout, beyond>>

(* variant of CurrentNames: the value found is stored in col_alias under   *)
(* the identity just looked up                                             *)
CurrentNames_Memo ==
  /\ pc = "current_names"
  /\ LET top == stack[Len(stack)]
         r   == current_names(col_alias, top[1], top[2])
     IN  /\ lookups' = Append(lookups, top)
         /\ col_alias' = IF r.kind = "return" /\ top \in DOMAIN col_alias
                         THEN [col_alias EXCEPT ![top] = <<r.table, r.column>>]
                         ELSE col_alias
         /\ IF r.kind # "call"
            THEN /\ result' = r
                 /\ stack' = <<>>
                 /\ pc' = "done"
            ELSE IF Len(stack) >= RecursionLimit
            THEN /\ result' = Raise("RuntimeError")
                 /\ stack' = <<>>
                 /\ pc' = "done"
            ELSE /\ stack' = Append(stack, <<r.table, r.column>>)
                 /\ UNCHANGED <<result, pc>>
  /\ UNCHANGED <<table_definitions, historical_table_names, vkeys, errs, verdict, pass2, stdout, beyond>>

(* the innermost frame of current_names runs its body *)
CurrentNames ==
  /\ pc = "current_names"
  /\ LET top == stack[Len(stack)]
         r   == current_names(col_alias, top[1], top[2])
     IN  /\ lookups' = Append(lookups, top)
         /\ IF r.kind # "call"
            THEN /\ result' = r
                 /\ stack' = <<>>
                 /\ pc' = "done"
            ELSE IF Len(stack) >= RecursionLimit
            THEN /\ result' = Raise("RuntimeError")
                 /\ stack' = <<>>
                 /\ pc' = "done"
            ELSE /\ stack' = Append(stack, <<r.table, r.column>>)
                 /\ UNCHANGED <<result, pc>>
  /\ UNCHANGED <<tables, vkeys, errs, verdict, pass2, stdout, beyond>>

(* _verify_col_alias is entered: errs = '' and the loop over sorted(col_alias) *)
VerifyColAliasBegin ==
  /\ pc = "idle"
  /\ pc' = "_verify_col_alias"
  /\ vkeys' = sorted(DOMAIN col_alias)
  /\ errs' = <<>>
  /\ stdout' = Append(stdout, Printed("Verifying column alias dictionary...", <<>>))
  /\ UNCHANGED <<tables, stack, lookups, result, verdict, pass2, beyond>>

(* one iteration of the loop: the handler is for KeyError only *)
VerifyColAliasIter ==
  /\ pc = "_verify_col_alias"
  /\ vkeys # <<>>
  /\ LET st == vkeys[1][1]
         sc == vkeys[1][2]
         r  == Resolve(col_alias, st, sc, 0)
     IN  IF r.kind = "raise"
         THEN IF IsSubclass(r.exc, "KeyError")
              THEN /\ errs' = Append(errs, <<st, sc>>)
                   /\ vkeys' = Tail(vkeys)
                   /\ UNCHANGED <<pc, verdict>>
              ELSE /\ verdict' = [kind |-> "raise", exc |-> r.exc, value |-> FALSE]
                   /\ pc' = "done"
                   /\ vkeys' = <<>>
                   /\ UNCHANGED errs
         ELSE /\ vkeys' = Tail(vkeys)
              /\ UNCHANGED <<pc, errs, verdict>>
  /\ UNCHANGED <<tables, stack, lookups, result, pass2, stdout, beyond>>

(* the loop is over: False if anything was reported, True otherwise *)
VerifyColAliasReturn ==
  /\ pc = "_verify_col_alias"
  /\ vkeys = <<>>
  /\ verdict' = [kind |-> "return", exc |-> None, value |-> (errs = <<>>)]
  /\ pc' = "done"
  /\ stdout' = Append(stdout,
        IF errs # <<>>
        THEN Printed("WARNINGS:",
                     [i \in DOMAIN errs |->
                        [text |-> "unable to complete lookup for table:column",
                         tbl |-> errs[i][1], col |-> errs[i][2], t |-> None, c |-> None]])
        ELSE Printed("No warnings.", <<>>))
  /\ UNCHANGED <<tables, stack, lookups, result, vkeys, errs, pass2, beyond>>

(* the self-test goes on after the first pass: its handler has printed the *)
(* exception if the pass raised one, and _verify_table_definitions is      *)
(* entered                                                                 *)
VerifyTableDefinitionsBegin ==
  /\ pc = "done"
  /\ verdict.kind # "none"
  /\ verdict2.kind = "none"
  /\ pc' = "_verify_table_definitions"
  /\ \E order \in DictOrders(table_definitions) :
        vdefs' = DefPairs(table_definitions, order)
  /\ errmsg' = <<>>
  /\ stdout' = (IF verdict.kind = "raise" /\ IsSubclass(verdict.exc, "Exception")
                THEN Append(stdout, Printed("A problem occurred while verifying col_alias", ExcText(verdict.exc)))
                ELSE stdout)
                 \o <<Printed("Verifying column order defintions...", <<>>)>>
  /\ UNCHANGED <<tables, stack, lookups, result, vkeys, errs, verdict, verdict2, beyond>>

(* variant of VerifyTableDefinitionsIter: the comparison joins its two     *)
(* tests with `and`                                                        *)
VerifyTableDefinitionsIter_AndTest ==
  /\ pc = "_verify_table_definitions"
  /\ vdefs # <<>>
  /\ LET tbl == vdefs[1][1]
         col == vdefs[1][2]
         r   == Resolve(col_alias, tbl, col, 0)
     IN  IF r.kind = "raise"
         THEN IF IsSubclass(r.exc, "KeyError")
              THEN /\ errmsg' = Append(errmsg, [text |-> "not found in lookup table",
                                                tbl |-> tbl, col |-> col, t |-> None, c |-> None])
                   /\ vdefs' = Tail(vdefs)
                   /\ UNCHANGED <<pc, verdict2, stdout>>
              ELSE /\ verdict2' = [kind |-> "raise", exc |-> r.exc, value |-> FALSE]
                   /\ pc' = "done"
                   /\ vdefs' = <<>>
                   /\ stdout' = IF IsSubclass(r.exc, "Exception")
                                THEN Append(stdout, Printed("A problem occurred while verifying table_definitions", ExcText(r.exc)))
                                ELSE stdout
                   /\ UNCHANGED errmsg
         ELSE /\ errmsg' = IF r.table # tbl /\ r.column # col
                           THEN Append(errmsg, [text |-> "does not match lookup table",
                                                tbl |-> tbl, col |-> col, t |-> r.table, c |-> r.column])
                           ELSE errmsg
              /\ vdefs' = Tail(vdefs)
              /\ UNCHANGED <<pc, verdict2, stdout>>
  /\ UNCHANGED <<tables, stack, lookups, result, vkeys, errs, verdict, beyond>>

(* one iteration of the inner loop: the handler is for KeyError only; an   *)
(* exception that leaves the pass is printed by the handler of the         *)
(* self-test                                                               *)
VerifyTableDefinitionsIter ==
  /\ pc = "_verify_table_definitions"
  /\ vdefs # <<>>
  /\ LET tbl == vdefs[1][1]
         col == vdefs[1][2]
         r   == Resolve(col_alias, tbl, col, 0)
     IN  IF r.kind = "raise"
         THEN IF IsSubclass(r.exc, "KeyError")
              THEN /\ errmsg' = Append(errmsg, [text |-> "not found in lookup table",
                                                tbl |-> tbl, col |-> col, t |-> None, c |-> None])
                   /\ vdefs' = Tail(vdefs)
                   /\ UNCHANGED <<pc, verdict2, stdout>>
              ELSE /\ verdict2' = [kind |-> "raise", exc |-> r.exc, value |-> FALSE]
                   /\ pc' = "done"
                   /\ vdefs' = <<>>
                   /\ stdout' = IF IsSubclass(r.exc, "Exception")
                                THEN Append(stdout, Printed("A problem occurred while verifying table_definitions", ExcText(r.exc)))
                                ELSE stdout
                   /\ UNCHANGED errmsg
         ELSE /\ errmsg' = IF r.table # tbl \/ r.column # col
                           THEN Append(errmsg, [text |-> "does not match lookup table",
                                                tbl |-> tbl, col |-> col, t |-> r.table, c |-> r.column])
                           ELSE errmsg
              /\ vdefs' = Tail(vdefs)
              /\ UNCHANGED <<pc, verdict2, stdout>>
  /\ UNCHANGED <<tables, stack, lookups, result, vkeys, errs, verdict, beyond>>

(* the loops are over: False if anything was reported, True otherwise *)
VerifyTableDefinitionsReturn ==
  /\ pc = "_verify_table_definitions"
  /\ vdefs = <<>>
  /\ verdict2' = [kind |-> "return", exc |-> None, value |-> (errmsg = <<>>)]
  /\ pc' = "done"
  /\ stdout' = Append(stdout, IF errmsg # <<>> THEN Printed("WARNINGS:", errmsg)
                                              ELSE Printed("No warnings.", <<>>))
  /\ UNCHANGED <<tables, stack, lookups, result, vkeys, errs, verdict, vdefs, errmsg, beyond>>

Next ==
  \/ \E id \in Inputs : Call(id[1], id[2])
  \/ CurrentNames
  \/ VerifyColAliasBegin
  \/ VerifyColAliasIter
  \/ VerifyColAliasReturn
  \/ VerifyTableDefinitionsBegin
  \/ VerifyTableDefinitionsIter
  \/ VerifyTableDefinitionsReturn

Spec == Init /\ [][Next]_vars

(***************************************************************************)
(* Calls made one after another                                            *)
(***************************************************************************)
(* the caller notes the outcome of the call that has finished and invokes  *)
(* current_names(table, column) again                                      *)
CallAgain(table, column) ==
  /\ pc = "done"
  /\ result.kind # "none"
  /\ outcomes' = outcomes \cup {<<lookups[1], result>>}
  /\ pc' = "current_names"
  /\ stack' = <<<<table, column>>>>
  /\ lookups' = <<>>
  /\ result' = NoOutcome
  /\ UNCHANGED <<tables, selftest, workers, homogenizer, others>>

InitRepeat ==
  /\ col_alias \in GenAliasTables
  /\ table_definitions = [t \in {"T"} |-> <<"X", "Y">>]
  /\ InitRest

NextRepeat ==
  \/ \E id \in Inputs : Call(id[1], id[2])
  \/ CurrentNames
  \/ \E id \in Inputs : CallAgain(id[1], id[2])

SpecRepeat == InitRepeat /\ [][NextRepeat]_vars

(***************************************************************************)
(* Calls made side by side: each worker has its own frames, col_alias is   *)
(* shared                                                                  *)
(***************************************************************************)
(* worker w invokes current_names(table, column) *)
WorkerCall(w, table, column) ==
  /\ workers[w].pc = "idle"
  /\ workers' = [workers EXCEPT ![w] = [pc |-> "current_names", asked |-> <<table, column>>,
                                        stack |-> <<<<table, column>>>>, result |-> NoOutcome]]
  /\ UNCHANGED <<tables, single, selftest, outcomes, homogenizer, others>>

(* variant of WorkerCurrentNames: the arguments of the running frame are   *)
(* kept in one place for all workers, another running worker's are used    *)
WorkerCurrentNames_SharedFrame(w) ==
  /\ workers[w].pc = "current_names"
  /\ LET me  == workers[w]
         v   == IF \E u \in Workers \ {w} : workers[u].pc = "current_names"
                THEN CHOOSE u \in Workers \ {w} : workers[u].pc = "current_names"
                ELSE w
         top == workers[v].stack[Len(workers[v].stack)]
         r   == current_names(col_alias, top[1], top[2])
     IN  workers' = [workers EXCEPT ![w] =
           IF r.kind # "call"
           THEN [me EXCEPT !.pc = "done", !.stack = <<>>, !.result = r]
           ELSE IF Len(me.stack) >= RecursionLimit
           THEN [me EXCEPT !.pc = "done", !.stack = <<>>, !.result = Raise("RuntimeError")]
           ELSE [me EXCEPT !.stack = Append(me.stack, <<r.table, r.column>>)]]
  /\ UNCHANGED <<tables, single, selftest, outcomes, homogenizer, others>>

(* the innermost frame of worker w's call runs its body *)
WorkerCurrentNames(w) ==
  /\ workers[w].pc = "current_names"
  /\ LET me  == workers[w]
         top == me.stack[Len(me.stack)]
         r   == current_names(col_alias, top[1], top[2])
     IN  workers' = [workers EXCEPT ![w] =
           IF r.kind # "call"
           THEN [me EXCEPT !.pc = "done", !.stack = <<>>, !.result = r]
           ELSE IF Len(me.stack) >= RecursionLimit
           THEN [me EXCEPT !.pc = "done", !.stack = <<>>, !.result = Raise("RuntimeError")]
           ELSE [me EXCEPT !.stack = Append(me.stack, <<r.table, r.column>>)]]
  /\ UNCHANGED <<tables, single, selftest, outcomes, homogenizer, others>>

NextConcurrent ==
  \/ \E w \in Workers : \E id \in Inputs : WorkerCall(w, id[1], id[2])
  \/ \E w \in Workers : WorkerCurrentNames(w)

SpecConcurrent == InitRepeat /\ [][NextConcurrent]_vars

(***************************************************************************)
(* The homogenizer: _homogenize up to the return of _standardize_df        *)
(***************************************************************************)
(* d[k] = v of a dict *)
Put(d, k, v) == [x \in DOMAIN d \cup {k} |-> IF x = k THEN v ELSE d[x]]

(* __msg(text): the text is written to stdout only when the module runs as *)
(* a script with --verbose; text, column and table are what is formatted   *)
Msg(text, column, table) == [text |-> text, column |-> column, table |-> table]

msg(shown, written, m) == IF shown THEN Append(written, m) ELSE written

(* x.strip() of the cells that occur in the files below *)
strip(x) == IF x = " Card OK. " THEN "Card OK." ELSE x

(* the lambda of the site_info special case; a NaN cell is a float and has *)
(* no strip()                                                              *)
quote(x) == "\"" \o strip(x) \o "\""

(* DataFrame(d, columns=colnames): exactly the columns colnames in their   *)
(* order; the rows are those of the series of d that are kept, a column    *)
(* without series is NaN in every row                                      *)
DataFrame(d, colnames) ==
  LET kept == DOMAIN d \cap Range(colnames)
      rows == IF kept = {} THEN 0 ELSE Len(d[CHOOSE c \in kept : TRUE])
  IN  [columns |-> colnames,
       data    |-> [c \in Range(colnames) |->
                      IF c \in DOMAIN d THEN d[c] ELSE [i \in 1..rows |-> NaN]]]

(* series.apply(quote) *)
apply(series) == [i \in DOMAIN series |-> quote(series[i])]

(* outdf with the column `name` replaced by its quoted cells *)
Quoted(outdf, name) ==
  [outdf EXCEPT !.data = [c \in DOMAIN outdf.data |->
                            IF c = name THEN apply(outdf.data[c]) ELSE outdf.data[c]]]

(* the exception the special case of site_info raises on outdf, or None *)
QuoteFails(outdf) ==
  IF "CompileResults" \notin Range(outdf.columns) THEN "KeyError"
  ELSE IF NaN \in Range(outdf.data["CompileResults"]) THEN "AttributeError"
  ELSE IF "CardStatus" \notin Range(outdf.columns) THEN "KeyError"
  ELSE IF NaN \in Range(outdf.data["CardStatus"]) THEN "AttributeError"
  ELSE None

(* a source file: the table name of its header (None: not a TOA5 file),    *)
(* whether _safe_open_toa5 can read it, and the frame it is read into      *)
SourceFile(table, readable, frame) ==
  [table |-> table, readable |-> readable, rawdf |-> frame]

(* a frame of one row whose cells carry the name of their source column *)
Frame(cols) == [columns |-> cols, data |-> [c \in Range(cols) |-> <<c>>]]

GenColumnLists == {<<>>, <<"X">>, <<"Y">>, <<"X", "Y">>, <<"Y", "X">>}

GenFiles ==
  {SourceFile(None, TRUE, NoFrame)}
  \cup {SourceFile(t, FALSE, NoFrame) : t \in GenTables}
  \cup {SourceFile(t, TRUE, Frame(cs)) : t \in GenTables, cs \in GenColumnLists}

(* files of tables of the shipped col_alias *)
SampleFiles ==
  {SourceFile("site_info", TRUE,
              [columns |-> <<"RECORD", "CompileResults", "CardStatus">>,
               data |-> [c \in {"RECORD", "CompileResults", "CardStatus"} |->
                           IF c = "CardStatus" THEN <<" Card OK. ">> ELSE <<c>>]]),
   SourceFile("site_info", TRUE, Frame(<<"CardStatus", "RECORD">>)),
   SourceFile("site_info", TRUE,
              [columns |-> <<"RECORD">>, data |-> [c \in {"RECORD"} |-> <<>>]]),
   SourceFile("site_info", TRUE,
              [columns |-> <<"CompileResults", "CardStatus">>,
               data |-> [c \in {"CompileResults", "CardStatus"} |->
                           IF c = "CardStatus" THEN <<NaN>> ELSE <<c>>]]),
   SourceFile("CFNT_stats5", TRUE,
              [columns |-> <<"RECORD", "wnd_dir_compass", "rslt_wnd_spd">>,
               data |-> [c \in {"RECORD", "wnd_dir_compass", "rslt_wnd_spd"} |->
                           IF c = "rslt_wnd_spd" THEN <<"1.5", NaN>>
                           ELSE IF c = "wnd_dir_compass" THEN <<"270", "180">>
                           ELSE <<"0", "1">>]]),
   SourceFile("CFNT_stats5", TRUE, Frame(<<"rslt_wnd_spd", "wnd_dir_compass", "RECORD">>)),
   SourceFile("stats30_n2o_co", TRUE, Frame(<<"RECORD", "lgr_n2o_Avg", "cov_n2o_Uz">>)),
   SourceFile("flux", TRUE, Frame(<<"l", "gps_ready", "no_such_column", "WS_ms_WVc(1)">>)),
   SourceFile("flux", FALSE, NoFrame),
   SourceFile("ts_data", TRUE, Frame(<<"n2o", "Ux">>)),
   SourceFile("no_such_table", TRUE, Frame(<<"RECORD">>)),
   SourceFile(None, TRUE, NoFrame)}

(* the files _homogenize may be given *)
Files == IF col_alias = ShippedColAlias THEN SampleFiles ELSE GenFiles

(* _homogenize(fname) up to its call of _standardize_df(rawdf,             *)
(* was_tblname); shown: the module runs as a script with --verbose         *)
Homogenize(file, shown) ==
  /\ fpc = "idle"
  /\ was_tblname' = file.table
  /\ verbose' = shown
  /\ newdfs' = <<>>
  /\ outdfs' = <<>>
  /\ IF file.table = None \/ file.table = ""
     THEN /\ msgs' = msg(shown, msgs, Msg("invalid file format. Skipping file.", None, None))
          /\ fresult' = [kind |-> "skip", exc |-> None]
          /\ fpc' = "done"
          /\ UNCHANGED <<rawdf, todo, pending>>
     ELSE IF file.table \notin historical_table_names
     THEN /\ msgs' = msg(shown, msgs, Msg("unrecognized table. Skipping file.", None, file.table))
          /\ fresult' = [kind |-> "skip", exc |-> None]
          /\ fpc' = "done"
          /\ UNCHANGED <<rawdf, todo, pending>>
     ELSE IF ~file.readable
     THEN /\ msgs' = msg(shown, msgs, Msg("error occurred during read. Skipping file.", None, None))
          /\ fresult' = [kind |-> "skip", exc |-> None]
          /\ fpc' = "done"
          /\ UNCHANGED <<rawdf, todo, pending>>
     ELSE /\ rawdf' = file.rawdf
          /\ todo' = file.rawdf.columns
          /\ pending' = {}
          /\ fpc' = IF file.rawdf.columns = <<>> THEN "tables" ELSE "columns"
          /\ UNCHANGED <<msgs, fresult>>
  /\ UNCHANGED <<tables, single, selftest, outcomes, workers, others>>

(* the columns of newdfs[tbl], none before the first setdefault *)
ColumnsOf(dfs, tbl) == IF tbl \in DOMAIN dfs THEN dfs[tbl] ELSE <<>>

(* a failed look-up ends the loop: the columns after it are not visited *)
StandardizeColumn_StopsAtMiss ==
  /\ fpc = "columns"
  /\ todo # <<>>
  /\ LET was_colname == Head(todo)
         r == Resolve(col_alias, was_tblname, was_colname, 0)
         miss == r.kind = "raise" /\ IsSubclass(r.exc, "ColumnNotFoundError")
         last == Tail(todo) = <<>> \/ miss
     IN  IF r.kind = "raise" /\ ~IsSubclass(r.exc, "ColumnNotFoundError")
         THEN /\ fresult' = [kind |-> "raise", exc |-> r.exc]
              /\ fpc' = "done"
              /\ todo' = <<>>
              /\ UNCHANGED <<newdfs, pending, msgs>>
         ELSE /\ todo' = IF miss THEN <<>> ELSE Tail(todo)
              /\ fpc' = IF last THEN "tables" ELSE "columns"
              /\ UNCHANGED fresult
              /\ IF r.kind = "raise"
                 THEN /\ msgs' = msg(verbose, msgs, Msg("Cannot find alias for column", was_colname, was_tblname))
                      /\ UNCHANGED newdfs
                 ELSE IF r.column = None
                 THEN /\ msgs' = msg(verbose, msgs, Msg("Discarding dropped column", was_colname, was_tblname))
                      /\ UNCHANGED newdfs
                 ELSE IF r.table = None
                 THEN /\ msgs' = msg(verbose, msgs, Msg("Discarding dropped table", None, was_tblname))
                      /\ UNCHANGED newdfs
                 ELSE /\ newdfs' = Put(newdfs, r.table,
                                       Put(ColumnsOf(newdfs, r.table), r.column, rawdf.data[was_colname]))
                      /\ UNCHANGED msgs
              /\ pending' = IF last THEN DOMAIN newdfs' ELSE {}
  /\ UNCHANGED <<tables, single, selftest, outcomes, workers, others, was_tblname, rawdf, outdfs, verbose>>

(* a column resolving to a table and column already stored is not stored: *)
(* the earlier column stays                                                *)
StandardizeColumn_KeepsFirst ==
  /\ fpc = "columns"
  /\ todo # <<>>
  /\ LET was_colname == Head(todo)
         r == Resolve(col_alias, was_tblname, was_colname, 0)
         last == Tail(todo) = <<>>
     IN  IF r.kind = "raise" /\ ~IsSubclass(r.exc, "ColumnNotFoundError")
         THEN /\ fresult' = [kind |-> "raise", exc |-> r.exc]
              /\ fpc' = "done"
              /\ todo' = <<>>
              /\ UNCHANGED <<newdfs, pending, msgs>>
         ELSE /\ todo' = Tail(todo)
              /\ fpc' = IF last THEN "tables" ELSE "columns"
              /\ UNCHANGED fresult
              /\ IF r.kind = "raise"
                 THEN /\ msgs' = msg(verbose, msgs, Msg("Cannot find alias for column", was_colname, was_tblname))
                      /\ UNCHANGED newdfs
                 ELSE IF r.column = None
                 THEN /\ msgs' = msg(verbose, msgs, Msg("Discarding dropped column", was_colname, was_tblname))
                      /\ UNCHANGED newdfs
                 ELSE IF r.table = None
                 THEN /\ msgs' = msg(verbose, msgs, Msg("Discarding dropped table", None, was_tblname))
                      /\ UNCHANGED newdfs
                 ELSE /\ newdfs' = IF r.table \in DOMAIN newdfs /\ r.column \in DOMAIN newdfs[r.table]
                                   THEN newdfs
                                   ELSE Put(newdfs, r.table,
                                            Put(ColumnsOf(newdfs, r.table), r.column, rawdf.data[was_colname]))
                      /\ UNCHANGED msgs
              /\ pending' = IF last THEN DOMAIN newdfs' ELSE {}
  /\ UNCHANGED <<tables, single, selftest, outcomes, workers, others, was_tblname, rawdf, outdfs, verbose>>

(* one iteration of `for was_colname in rawdf.columns`: the handler is for *)
(* ColumnNotFoundError only, any other exception leaves _standardize_df    *)
(* and _homogenize; after the last column the second loop begins           *)
StandardizeColumn ==
  /\ fpc = "columns"
  /\ todo # <<>>
  /\ LET was_colname == Head(todo)
         r == Resolve(col_alias, was_tblname, was_colname, 0)
         last == Tail(todo) = <<>>
     IN  IF r.kind = "raise" /\ ~IsSubclass(r.exc, "ColumnNotFoundError")
         THEN /\ fresult' = [kind |-> "raise", exc |-> r.exc]
              /\ fpc' = "done"
              /\ todo' = <<>>
              /\ UNCHANGED <<newdfs, pending, msgs>>
         ELSE /\ todo' = Tail(todo)
              /\ fpc' = IF last THEN "tables" ELSE "columns"
              /\ UNCHANGED fresult
              /\ IF r.kind = "raise"
                 THEN /\ msgs' = msg(verbose, msgs, Msg("Cannot find alias for column", was_colname, was_tblname))
                      /\ UNCHANGED newdfs
                 ELSE IF r.column = None
                 THEN /\ msgs' = msg(verbose, msgs, Msg("Discarding dropped column", was_colname, was_tblname))
                      /\ UNCHANGED newdfs
                 ELSE IF r.table = None
                 THEN /\ msgs' = msg(verbose, msgs, Msg("Discarding dropped table", None, was_tblname))
                      /\ UNCHANGED newdfs
                 ELSE /\ newdfs' = Put(newdfs, r.table,
                                       Put(ColumnsOf(newdfs, r.table), r.column, rawdf.data[was_colname]))
                      /\ UNCHANGED msgs
              /\ pending' = IF last THEN DOMAIN newdfs' ELSE {}
  /\ UNCHANGED <<tables, single, selftest, outcomes, workers, others, was_tblname, rawdf, outdfs, verbose>>

(* the columns of an output are those of the series, in sorted order,      *)
(* not those of the table definition                                       *)
StandardizeTable_SeriesColumns ==
  /\ fpc = "tables"
  /\ \E tbl \in pending :
       /\ pending' = pending \ {tbl}
       /\ IF tbl \notin DOMAIN table_definitions
          THEN /\ msgs' = msg(verbose, msgs, Msg("No table definition found", None, tbl))
               /\ UNCHANGED <<outdfs, fpc, fresult>>
          ELSE LET IsSeries(c) == c \in DOMAIN newdfs[tbl]
                   outdf == DataFrame(newdfs[tbl], SelectSeq(StringOrder, IsSeries))
                   fails == IF tbl = "site_info" THEN QuoteFails(outdf) ELSE None
               IN  /\ UNCHANGED msgs
                   /\ IF fails # None
                      THEN /\ fresult' = [kind |-> "raise", exc |-> fails]
                           /\ fpc' = "done"
                           /\ outdfs' = <<>>
                      ELSE /\ outdfs' = Put(outdfs, tbl,
                                            IF tbl = "site_info"
                                            THEN Quoted(Quoted(outdf, "CompileResults"), "CardStatus")
                                            ELSE outdf)
                           /\ UNCHANGED <<fpc, fresult>>
  /\ UNCHANGED <<tables, single, selftest, outcomes, workers, others, was_tblname, rawdf, todo, newdfs, verbose>>

(* a table without definition is output with the columns of its series *)
StandardizeTable_NoDefinitionKept ==
  /\ fpc = "tables"
  /\ \E tbl \in pending :
       /\ pending' = pending \ {tbl}
       /\ IF tbl \notin DOMAIN table_definitions
          THEN LET IsSeries(c) == c \in DOMAIN newdfs[tbl]
               IN  /\ msgs' = msg(verbose, msgs, Msg("No table definition found", None, tbl))
                   /\ outdfs' = Put(outdfs, tbl, DataFrame(newdfs[tbl], SelectSeq(StringOrder, IsSeries)))
                   /\ UNCHANGED <<fpc, fresult>>
          ELSE LET colnames == Tail(table_definitions[tbl])
                   outdf == DataFrame(newdfs[tbl], colnames)
                   fails == IF tbl = "site_info" THEN QuoteFails(outdf) ELSE None
               IN  /\ UNCHANGED msgs
                   /\ IF fails # None
                      THEN /\ fresult' = [kind |-> "raise", exc |-> fails]
                           /\ fpc' = "done"
                           /\ outdfs' = <<>>
                      ELSE /\ outdfs' = Put(outdfs, tbl,
                                            IF tbl = "site_info"
                                            THEN Quoted(Quoted(outdf, "CompileResults"), "CardStatus")
                                            ELSE outdf)
                           /\ UNCHANGED <<fpc, fresult>>
  /\ UNCHANGED <<tables, single, selftest, outcomes, workers, others, was_tblname, rawdf, todo, newdfs, verbose>>

(* one iteration of `for tbl in newdfs`, in the arbitrary order of the     *)
(* dict: the handler is for the KeyError of table_definitions[tbl]; an     *)
(* exception of the site_info special case leaves _standardize_df          *)
StandardizeTable ==
  /\ fpc = "tables"
  /\ \E tbl \in pending :
       /\ pending' = pending \ {tbl}
       /\ IF tbl \notin DOMAIN table_definitions
          THEN /\ msgs' = msg(verbose, msgs, Msg("No table definition found", None, tbl))
               /\ UNCHANGED <<outdfs, fpc, fresult>>
          ELSE LET colnames == Tail(table_definitions[tbl])
                   outdf == DataFrame(newdfs[tbl], colnames)
                   fails == IF tbl = "site_info" THEN QuoteFails(outdf) ELSE None
               IN  /\ UNCHANGED msgs
                   /\ IF fails # None
                      THEN /\ fresult' = [kind |-> "raise", exc |-> fails]
                           /\ fpc' = "done"
                           /\ outdfs' = <<>>
                      ELSE /\ outdfs' = Put(outdfs, tbl,
                                            IF tbl = "site_info"
                                            THEN Quoted(Quoted(outdf, "CompileResults"), "CardStatus")
                                            ELSE outdf)
                           /\ UNCHANGED <<fpc, fresult>>
  /\ UNCHANGED <<tables, single, selftest, outcomes, workers, others, was_tblname, rawdf, todo, newdfs, verbose>>

(* `return outdfs` *)
StandardizeReturn ==
  /\ fpc = "tables"
  /\ pending = {}
  /\ fpc' = "done"
  /\ fresult' = [kind |-> "return", exc |-> None]
  /\ UNCHANGED <<tables, single, selftest, outcomes, workers, others, was_tblname, rawdf, todo,
                 newdfs, pending, outdfs, msgs, verbose>>

(* table definitions that begin with the index column *)
FileTableDefinitions ==
  {[t \in {} |-> <<>>],
   [t \in {"T"} |-> <<"TIMESTAMP", "Y">>],
   [t \in {"T"} |-> <<"TIMESTAMP", "X", "Y">>],
   [t \in {"T"} |-> <<"TIMESTAMP", "Y", "X">>],
   [t \in {"T", "U"} |-> <<"TIMESTAMP", "X", "Y">>]}

(* an alias table under which the columns of one file go to two tables *)
TwoTableAlias ==
  DictOf(<< <<"T", "X", "", "">>, <<"T", "Y", "U", "X">>, <<"U", "X", "", "">> >>)

InitFile ==
  \/ InitShipped
  \/ /\ col_alias \in GenAliasTables \cup {TwoTableAlias}
     /\ table_definitions \in FileTableDefinitions
     /\ InitRest

NextFile ==
  \/ \E file \in Files, shown \in BOOLEAN : Homogenize(file, shown)
  \/ StandardizeColumn
  \/ StandardizeTable
  \/ StandardizeReturn

SpecFile == InitFile /\ [][NextFile]_vars

(***************************************************************************)
(* split_toa5.py                                                           *)
(***************************************************************************)
(* _homogenize: the loop that writes the tables of _standardize_df.  A     *)
(* table here is its column header and one text per timestamp; timestamps   *)
(* are the numbers of the record periods, SlotsPerBale of them to a bale.  *)
(***************************************************************************)
SlotsPerBale == 3

(* table_baleinfo: how a table is grouped into bales, the size of a bale    *)
(* and the frequency of the records                                        *)
BaleInfo(grpbykeys, balesize, freq) ==
  [grpbykeys |-> grpbykeys, balesize |-> balesize, freq |-> freq]

table_baleinfo ==
  [tsdata       |-> BaleInfo("day", "Day", "100L"),
   stats30      |-> BaleInfo("month", "MonthBegin", "30T"),
   stats5       |-> BaleInfo("month", "MonthBegin", "5T"),
   site_daily   |-> BaleInfo(None, None, "D"),
   diagnostics  |-> BaleInfo(None, None, "5T"),
   site_info    |-> BaleInfo(None, None, None),
   extra_info   |-> BaleInfo(None, None, None),
   tsdata_extra |-> BaleInfo("day", "Day", "100L"),
   stats30_ui   |-> BaleInfo("month", "MonthBegin", "30T"),
   stats5_ui    |-> BaleInfo("month", "MonthBegin", "5T"),
   stats30_6rad |-> BaleInfo("month", "MonthBegin", "30T"),
   stats5_6rad  |-> BaleInfo("month", "MonthBegin", "5T")]

(* the codes of site_list *)
SiteCodes == {"CFNT", "CFCT", "MMTN", "LIND", "MSLK", "WINE"}

(* a set of timestamps in ascending order *)
RECURSIVE Ascending(_)
Ascending(S) ==
  IF S = {} THEN <<>>
  ELSE LET m == CHOOSE x \in S : \A y \in S : x <= y
       IN  <<m>> \o Ascending(S \ {m})

(* the bale of a timestamp, and the timestamps of a bale *)
Bale(ts) == (ts - 1) \div SlotsPerBale + 1

BaleSlots(b) == ((b - 1) * SlotsPerBale + 1)..(b * SlotsPerBale)

(* df.reindex(tstamps): the rows of df at the timestamps, NaN where df has *)
(* none                                                                    *)
reindex(df, tstamps) ==
  [df EXCEPT !.rows = [ts \in tstamps |-> IF ts \in DOMAIN df.rows THEN df.rows[ts] ELSE NaN]]

(* df.asfreq(freq): every timestamp from the first to the last of df *)
asfreq(df) ==
  IF DOMAIN df.rows = {} THEN df
  ELSE LET first == CHOOSE x \in DOMAIN df.rows : \A y \in DOMAIN df.rows : x <= y
           last  == CHOOSE x \in DOMAIN df.rows : \A y \in DOMAIN df.rows : x >= y
       IN  reindex(df, first..last)

(* existing.combine_first(to_merge): the texts of existing, and those of   *)
(* to_merge where existing has no row or NaN                               *)
combine_first(existing, to_merge) ==
  [existing EXCEPT !.rows =
     [ts \in DOMAIN existing.rows \cup DOMAIN to_merge.rows |->
        IF ts \in DOMAIN existing.rows /\ existing.rows[ts] # NaN THEN existing.rows[ts]
        ELSE IF ts \in DOMAIN to_merge.rows THEN to_merge.rows[ts]
        ELSE NaN]]

(* _prep_df(std_df, tbl_name, baled): the list of tables to write *)
PrepDf(std_df, tbl_name, isbaled) ==
  IF tbl_name \notin DOMAIN table_baleinfo THEN <<>>
  ELSE IF ~isbaled \/ table_baleinfo[tbl_name].grpbykeys = None THEN <<std_df>>
  ELSE LET groups == Ascending({Bale(ts) : ts \in DOMAIN std_df.rows})
       IN  [i \in DOMAIN groups |-> reindex(std_df, BaleSlots(groups[i]))]

(* _make_out_fname(df, site_code, dest_path, tbl_name, baled) with         *)
(* dest_path = None: the file name, or the exception raised                *)
MakeOutFname(df, site, tbl_name, isbaled) ==
  IF site \notin SiteCodes \/ tbl_name \notin DOMAIN table_definitions
     \/ tbl_name \notin DOMAIN table_baleinfo
  THEN [kind |-> "raise", exc |-> "Exception", fname |-> ""]
  ELSE LET info  == table_baleinfo[tbl_name]
           start == IF isbaled /\ info.grpbykeys # None
                    THEN "_" \o ToString(CHOOSE x \in DOMAIN df.rows : \A y \in DOMAIN df.rows : x <= y)
                    ELSE ""
           hhmm  == IF isbaled /\ info.balesize = "Day" THEN "_0000" ELSE ""
       IN  [kind |-> "return", exc |-> None,
            fname |-> site \o "_" \o tbl_name \o start \o hhmm \o ".dat"]

(* a file of _safe_write_csv: the header line and the rows in ascending    *)
(* order, NaN written as NAN                                               *)
CsvRows(df) ==
  LET order == Ascending(DOMAIN df.rows)
  IN  [i \in DOMAIN order |->
         <<order[i], IF df.rows[order[i]] = NaN THEN "NAN" ELSE df.rows[order[i]]>>]

SafeWriteCsv(df) == [header |-> df.columns, rows |-> CsvRows(df)]

(* _safe_read_csv(file_name): NAN is read as NaN *)
SafeReadCsv(file) ==
  [columns |-> file.header,
   rows |-> [ts \in {file.rows[i][1] : i \in DOMAIN file.rows} |->
               LET i == CHOOSE i \in DOMAIN file.rows : file.rows[i][1] = ts
               IN  IF file.rows[i][2] = "NAN" THEN NaN ELSE file.rows[i][2]]]

(* _merge_with_existing(to_merge, existing, tbl_name): the combined table   *)
(* or the exception raised; infer_freq needs three timestamps at least     *)
MergeWithExisting(to_merge, existing, tbl_name) ==
  IF to_merge.columns # existing.columns
  THEN [kind |-> "raise", exc |-> "HeaderMismatchError", df |-> to_merge]
  ELSE IF tbl_name \notin DOMAIN table_baleinfo
  THEN [kind |-> "raise", exc |-> "Exception", df |-> to_merge]
  ELSE IF table_baleinfo[tbl_name].freq # None
  THEN IF Cardinality(DOMAIN existing.rows) < 3
       THEN [kind |-> "raise", exc |-> "ValueError", df |-> to_merge]
       ELSE [kind |-> "return", exc |-> None,
             df |-> asfreq(combine_first(asfreq(existing), to_merge))]
  ELSE [kind |-> "return", exc |-> None, df |-> combine_first(existing, to_merge)]

(* the file system without the file at path *)
Removed_(d, path) == [x \in DOMAIN d \ {path} |-> d[x]]

(* a standardized table of the shipped definition of tbl_name  *)
StdTable(tbl_name, rows) ==
  [columns |-> Tail(ShippedTableDefinitions[tbl_name]), rows |-> rows]

(* the results of _standardize_df that are written *)
Jobs ==
  {[t \in {"stats30"} |->
      StdTable(t, [ts \in {1, SlotsPerBale + 1} |-> IF ts = 1 THEN "a" ELSE "c"])],
   [t \in {"stats30", "site_info"} |->
      IF t = "stats30" THEN StdTable(t, [ts \in {2} |-> "b"])
      ELSE StdTable(t, [ts \in {1} |-> "s"])],
   [t \in {"site_info"} |-> StdTable(t, <<>>)]}

(* the files that may be at the output paths before: for each, none, one   *)
(* with the header of the table or one with another header, of three rows; *)
(* the file of the unbaled table may also be one of a single row           *)
ExistingFile(tbl_name, same, n) ==
  [header |-> IF same THEN Tail(ShippedTableDefinitions[tbl_name]) ELSE <<"RECORD">>,
   rows |-> [i \in 1..n |-> <<i, IF i = 2 THEN "NAN" ELSE "old">>]]

Disks ==
  LET paths == {"CFNT_stats30_1.dat", "CFNT_stats30.dat", "CFNT_site_info.dat"}
      TableOf(p) == IF p = "CFNT_site_info.dat" THEN "site_info" ELSE "stats30"
      Full == UNION {{[p \in P |-> ExistingFile(TableOf(p), p \in same, 3)] : same \in SUBSET P} :
                       P \in SUBSET paths}
  IN  Full \cup {Put(d, "CFNT_stats30.dat", ExistingFile("stats30", TRUE, 1)) :
                   d \in {x \in Full : "CFNT_stats30.dat" \notin DOMAIN x}}

(* _homogenize after _standardize_df has returned stdfs: the loop over the *)
(* tables begins; disk0 is the file system at that moment                  *)
WriteBegin(job, isbaled, site, shown, onwindows, files) ==
  /\ wpc = "idle"
  /\ stdfs' = job
  /\ baled' = isbaled
  /\ site_code' = site
  /\ verbose' = shown
  /\ os_windows' = onwindows
  /\ disk0' = files
  /\ disk' = files
  /\ wleft' = DOMAIN job
  /\ wpc' = "tables"
  /\ UNCHANGED <<tables, single, selftest, outcomes, workers, splitter, batch, standardizer, msgs,
                 newname, wtables, wtable, outpath, tempname, wresult>>

(* one iteration of `for newname, newtbl in stdfs.iteritems()`, in the     *)
(* arbitrary order of the dict: _prep_df makes the list of tables          *)
WriteTable ==
  /\ wpc = "tables"
  /\ \E name \in wleft :
       LET prepared == PrepDf(stdfs[name], name, baled)
       IN  /\ wleft' = wleft \ {name}
           /\ newname' = name
           /\ wtables' = prepared
           /\ wpc' = IF prepared = <<>> THEN "tables" ELSE "bales"
           /\ msgs' = IF prepared = <<>>
                      THEN msg(verbose, msgs, Msg("no output for table", None, name))
                      ELSE msgs
  /\ UNCHANGED <<tables, single, selftest, outcomes, workers, splitter, batch, standardizer, verbose,
                 stdfs, baled, site_code, os_windows, disk0, disk, wtable, outpath, tempname, wresult>>

(* the loop over the tables is over: _homogenize returns *)
WriteReturn ==
  /\ wpc = "tables"
  /\ wleft = {}
  /\ wpc' = "done"
  /\ wresult' = [kind |-> "return", exc |-> None]
  /\ UNCHANGED <<tables, single, selftest, outcomes, workers, splitter, batch, homogenizer,
                 stdfs, baled, site_code, os_windows, disk0, disk, wleft, newname, wtables,
                 wtable, outpath, tempname>>

(* an existing file is removed as soon as the table is about to be written  *)
WriteBale_RemovesFirst ==
  /\ wpc = "bales"
  /\ IF wtables = <<>>
     THEN /\ wpc' = "tables"
          /\ UNCHANGED <<wtables, wtable, outpath, tempname, disk, msgs, wresult>>
     ELSE LET t == Head(wtables)
              made == MakeOutFname(t, site_code, newname, baled)
              merged == MergeWithExisting(t, SafeReadCsv(disk[made.fname]), newname)
          IN  /\ wtables' = Tail(wtables)
              /\ IF DOMAIN t.rows = {}
                 THEN /\ msgs' = msg(verbose, msgs, Msg("no data in", None, newname))
                      /\ UNCHANGED <<wpc, wtable, outpath, tempname, disk, wresult>>
                 ELSE IF made.kind = "raise"
                 THEN /\ wpc' = "raised"
                      /\ wresult' = [kind |-> "raise", exc |-> made.exc]
                      /\ UNCHANGED <<wtable, outpath, tempname, disk, msgs>>
                 ELSE IF made.fname \in DOMAIN disk /\ merged.kind = "raise"
                 THEN IF merged.exc = "HeaderMismatchError"
                      THEN /\ msgs' = msg(verbose, msgs, Msg("existing file has different header", None, made.fname))
                           /\ UNCHANGED <<wpc, wtable, outpath, tempname, disk, wresult>>
                      ELSE /\ wpc' = "raised"
                           /\ wresult' = [kind |-> "raise", exc |-> merged.exc]
                           /\ UNCHANGED <<wtable, outpath, tempname, disk, msgs>>
                 ELSE /\ wtable' = IF made.fname \in DOMAIN disk THEN merged.df ELSE t
                      /\ outpath' = made.fname
                      /\ tempname' = made.fname \o "~0"
                      /\ msgs' = msg(verbose, msgs,
                                     Msg(IF made.fname \in DOMAIN disk THEN "Appending to" ELSE "Writing to",
                                         None, made.fname))
                      /\ disk' = Put(Removed_(disk, made.fname), made.fname \o "~0", [header |-> <<>>, rows |-> <<>>])
                      /\ wpc' = "writing"
                      /\ UNCHANGED wresult
  /\ UNCHANGED <<tables, single, selftest, outcomes, workers, splitter, batch, standardizer, verbose,
                 stdfs, baled, site_code, os_windows, disk0, wleft, newname>>

(* a file with another header is overwritten instead of skipped *)
WriteBale_MismatchOverwrites ==
  /\ wpc = "bales"
  /\ IF wtables = <<>>
     THEN /\ wpc' = "tables"
          /\ UNCHANGED <<wtables, wtable, outpath, tempname, disk, msgs, wresult>>
     ELSE LET t == Head(wtables)
              made == MakeOutFname(t, site_code, newname, baled)
              merged == MergeWithExisting(t, SafeReadCsv(disk[made.fname]), newname)
              mismatch == made.fname \in DOMAIN disk /\ merged.kind = "raise"
                          /\ merged.exc = "HeaderMismatchError"
          IN  /\ wtables' = Tail(wtables)
              /\ IF DOMAIN t.rows = {}
                 THEN /\ msgs' = msg(verbose, msgs, Msg("no data in", None, newname))
                      /\ UNCHANGED <<wpc, wtable, outpath, tempname, disk, wresult>>
                 ELSE IF made.kind = "raise"
                 THEN /\ wpc' = "raised"
                      /\ wresult' = [kind |-> "raise", exc |-> made.exc]
                      /\ UNCHANGED <<wtable, outpath, tempname, disk, msgs>>
                 ELSE IF made.fname \in DOMAIN disk /\ merged.kind = "raise" /\ ~mismatch
                 THEN /\ wpc' = "raised"
                      /\ wresult' = [kind |-> "raise", exc |-> merged.exc]
                      /\ UNCHANGED <<wtable, outpath, tempname, disk, msgs>>
                 ELSE /\ wtable' = IF made.fname \in DOMAIN disk /\ ~mismatch THEN merged.df ELSE t
                      /\ outpath' = made.fname
                      /\ tempname' = made.fname \o "~0"
                      /\ msgs' = msg(verbose, msgs,
                                     Msg(IF made.fname \in DOMAIN disk THEN "Appending to" ELSE "Writing to",
                                         None, made.fname))
                      /\ disk' = Put(disk, made.fname \o "~0", [header |-> <<>>, rows |-> <<>>])
                      /\ wpc' = "writing"
                      /\ UNCHANGED wresult
  /\ UNCHANGED <<tables, single, selftest, outcomes, workers, splitter, batch, standardizer, verbose,
                 stdfs, baled, site_code, os_windows, disk0, wleft, newname>>

(* one iteration of `for table in tables` up to the opening of the          *)
(* temporary file by _safe_write_csv: an empty table is skipped; the file   *)
(* name is made; a file that exists at outpath is read and merged, and the *)
(* table is skipped when the headers differ; any other exception leaves     *)
(* _homogenize.  After the last table the outer loop goes on.               *)
WriteBale ==
  /\ wpc = "bales"
  /\ IF wtables = <<>>
     THEN /\ wpc' = "tables"
          /\ UNCHANGED <<wtables, wtable, outpath, tempname, disk, msgs, wresult>>
     ELSE LET t == Head(wtables)
              made == MakeOutFname(t, site_code, newname, baled)
              merged == MergeWithExisting(t, SafeReadCsv(disk[made.fname]), newname)
          IN  /\ wtables' = Tail(wtables)
              /\ IF DOMAIN t.rows = {}
                 THEN /\ msgs' = msg(verbose, msgs, Msg("no data in", None, newname))
                      /\ UNCHANGED <<wpc, wtable, outpath, tempname, disk, wresult>>
                 ELSE IF made.kind = "raise"
                 THEN /\ wpc' = "raised"
                      /\ wresult' = [kind |-> "raise", exc |-> made.exc]
                      /\ UNCHANGED <<wtable, outpath, tempname, disk, msgs>>
                 ELSE IF made.fname \in DOMAIN disk /\ merged.kind = "raise"
                 THEN IF merged.exc = "HeaderMismatchError"
                      THEN /\ msgs' = msg(verbose, msgs, Msg("existing file has different header", None, made.fname))
                           /\ UNCHANGED <<wpc, wtable, outpath, tempname, disk, wresult>>
                      ELSE /\ wpc' = "raised"
                           /\ wresult' = [kind |-> "raise", exc |-> merged.exc]
                           /\ UNCHANGED <<wtable, outpath, tempname, disk, msgs>>
                 ELSE /\ wtable' = IF made.fname \in DOMAIN disk THEN merged.df ELSE t
                      /\ outpath' = made.fname
                      /\ tempname' = made.fname \o "~0"
                      /\ msgs' = msg(verbose, msgs,
                                     Msg(IF made.fname \in DOMAIN disk THEN "Appending to" ELSE "Writing to",
                                         None, made.fname))
                      /\ disk' = Put(disk, made.fname \o "~0", [header |-> <<>>, rows |-> <<>>])
                      /\ wpc' = "writing"
                      /\ UNCHANGED wresult
  /\ UNCHANGED <<tables, single, selftest, outcomes, workers, splitter, batch, standardizer, verbose,
                 stdfs, baled, site_code, os_windows, disk0, wleft, newname>>

(* to_csv writes the next line of the table to the temporary file: first    *)
(* the header, then row after row                                          *)
WriteLine ==
  /\ wpc = "writing"
  /\ LET whole == SafeWriteCsv(wtable)
         sofar == disk[tempname]
     IN  /\ sofar # whole
         /\ disk' = [disk EXCEPT ![tempname] =
                       IF sofar.header = <<>> THEN [sofar EXCEPT !.header = whole.header]
                       ELSE [sofar EXCEPT !.rows = Append(sofar.rows, whole.rows[Len(sofar.rows) + 1])]]
  /\ UNCHANGED <<tables, single, selftest, outcomes, workers, splitter, batch, homogenizer,
                 stdfs, baled, site_code, os_windows, disk0, wleft, newname, wtables, wtable,
                 outpath, tempname, wpc, wresult>>

(* _safe_write_csv returns: the temporary file is complete *)
WriteClose ==
  /\ wpc = "writing"
  /\ disk[tempname] = SafeWriteCsv(wtable)
  /\ wpc' = "remove"
  /\ UNCHANGED <<tables, single, selftest, outcomes, workers, splitter, batch, homogenizer,
                 stdfs, baled, site_code, os_windows, disk0, disk, wleft, newname, wtables,
                 wtable, outpath, tempname, wresult>>

(* `if os.path.isfile(outpath): os.remove(outpath)`; ok: os.remove         *)
(* succeeds.  A failure is caught as WindowsError on Windows, and the      *)
(* table goes to outpath + '.new'; elsewhere the name WindowsError is       *)
(* undefined and NameError leaves _homogenize                              *)
WriteRemove(ok) ==
  /\ wpc = "remove"
  /\ IF outpath \notin DOMAIN disk
     THEN /\ wpc' = "rename"
          /\ UNCHANGED <<disk, outpath, tempname, msgs, wresult>>
     ELSE IF ok
     THEN /\ disk' = Removed_(disk, outpath)
          /\ wpc' = "rename"
          /\ UNCHANGED <<outpath, tempname, msgs, wresult>>
     ELSE IF os_windows
     THEN /\ msgs' = msg(verbose, msgs, Msg("unable to delete existing file", None, outpath))
          /\ outpath' = outpath \o ".new"
          /\ wpc' = "rename"
          /\ UNCHANGED <<disk, tempname, wresult>>
     ELSE /\ wpc' = "raised"
          /\ wresult' = [kind |-> "raise", exc |-> "NameError"]
          /\ UNCHANGED <<disk, outpath, tempname, msgs>>
  /\ UNCHANGED <<tables, single, selftest, outcomes, workers, splitter, batch, standardizer, verbose,
                 stdfs, baled, site_code, os_windows, disk0, wleft, newname, wtables, wtable>>

(* os.rename(tempname, outpath); ok: it succeeds.  A failure is caught on  *)
(* Windows and the loop goes on                                            *)
WriteRename(ok) ==
  /\ wpc = "rename"
  /\ IF ok
         THEN /\ disk' = Put(Removed_(disk, tempname), outpath, disk[tempname])
              /\ wpc' = "bales"
              /\ UNCHANGED <<msgs, wresult>>
         ELSE IF os_windows
         THEN /\ msgs' = msg(verbose, msgs, Msg("unable to rename to destination", None, outpath))
              /\ wpc' = "bales"
              /\ UNCHANGED <<disk, wresult>>
         ELSE /\ wpc' = "raised"
              /\ wresult' = [kind |-> "raise", exc |-> "NameError"]
              /\ UNCHANGED <<disk, msgs>>
  /\ UNCHANGED <<tables, single, selftest, outcomes, workers, splitter, batch, standardizer, verbose,
                 stdfs, baled, site_code, os_windows, disk0, wleft, newname, wtables, wtable, outpath, tempname>>

(* the routine is aborted: the process ends where it is *)
WriteAbort ==
  /\ wpc \in {"tables", "bales", "writing", "remove", "rename"}
  /\ wpc' = "aborted"
  /\ UNCHANGED <<tables, single, selftest, outcomes, workers, splitter, batch, homogenizer,
                 stdfs, baled, site_code, os_windows, disk0, disk, wleft, newname, wtables,
                 wtable, outpath, tempname, wresult>>

InitWrite == InitShipped

NextWrite ==
  \/ \E job \in Jobs, isbaled, shown, onwindows \in BOOLEAN, site \in {"CFNT", None},
        files \in Disks :
       WriteBegin(job, isbaled, site, shown, onwindows, files)
  \/ WriteTable
  \/ WriteReturn
  \/ WriteBale
  \/ WriteLine
  \/ WriteClose
  \/ \E ok \in BOOLEAN : WriteRemove(ok)
  \/ \E ok \in BOOLEAN : WriteRename(ok)
  \/ WriteAbort

SpecWrite == InitWrite /\ [][NextWrite]_vars

(***************************************************************************)
(* process_new_telemetry_data.py: every new telemetry file is standardized *)
(* and the files that were are deleted afterwards                          *)
(***************************************************************************)
MaxFiles == 3

(* a telemetry file: the number of comma-separated fields of its first     *)
(* line, the table name get_table_name reads (None: not TOA5), whether     *)
(* _safe_open_toa5 can read it, and whether standardizing or writing it    *)
(* raises                                                                  *)
TelemetryFile(fields, tbl, readable, fails) ==
  [fields |-> fields, table |-> tbl, readable |-> readable, fails |-> fails]

TelemetryKinds ==
  {TelemetryFile(8, "stats30", TRUE, FALSE),
   TelemetryFile(8, "stats30", TRUE, TRUE),
   TelemetryFile(8, "stats30", FALSE, FALSE),
   TelemetryFile(8, "no_such_table", TRUE, FALSE),
   TelemetryFile(8, None, TRUE, FALSE),
   TelemetryFile(1, None, TRUE, FALSE)}

(* glob(TELEMETRY_SRC/REMOTE_*.dat): the names and what they hold *)
Globs ==
  UNION {[1..n -> TelemetryKinds] : n \in 0..MaxFiles}

(* get_site_code(fname): l.split(',')[3] of the first line *)
GetSiteCode(file) ==
  IF file.fields < 4 THEN [kind |-> "raise", exc |-> "IndexError"]
  ELSE [kind |-> "return", exc |-> None]

(* standardize_toa5(fname, dest_path=dest, baled=False): _homogenize       *)
(* returns early for a file it skips                                       *)
StandardizeToa5(file) ==
  IF GetSiteCode(file).kind = "raise" THEN [kind |-> "raise", exc |-> "IndexError"]
  ELSE IF file.table = None \/ file.table = "" THEN [kind |-> "return", exc |-> None]
  ELSE IF file.table \notin historical_table_names THEN [kind |-> "return", exc |-> None]
  ELSE IF ~file.readable THEN [kind |-> "return", exc |-> None]
  ELSE IF file.fails THEN [kind |-> "raise", exc |-> "Exception"]
  ELSE [kind |-> "return", exc |-> None]

(* a file _homogenize skips *)
Skipped(file) ==
  /\ GetSiteCode(file).kind = "return"
  /\ \/ file.table = None
     \/ file.table = ""
     \/ file.table \notin historical_table_names
     \/ ~file.readable

(* a record of logger.error *)
Error(text, fname) == [level |-> "error", text |-> text, fname |-> fname]

(* lines 38-42: the new files are listed; they are all in the directory *)
BatchBegin(files) ==
  /\ bpc = "idle"
  /\ new_files' = files
  /\ unprocessed' = [i \in DOMAIN files |-> i]
  /\ to_remove' = <<>>
  /\ undeleted' = <<>>
  /\ telemetry' = DOMAIN files
  /\ bpc' = "process"
  /\ UNCHANGED <<tables, single, selftest, outcomes, workers, homogenizer, splitter, writer,
                 log, bresult>>

(* the file is listed for removal before it is standardized *)
BatchProcess_RemovesAttempted ==
  /\ bpc = "process"
  /\ IF unprocessed = <<>>
     THEN /\ bpc' = "delete"
          /\ undeleted' = to_remove
          /\ UNCHANGED <<unprocessed, to_remove, log, bresult>>
     ELSE LET fname == Head(unprocessed)
              file  == new_files[fname]
          IN  /\ unprocessed' = Tail(unprocessed)
              /\ IF GetSiteCode(file).kind = "raise"
                 THEN /\ bpc' = "raised"
                      /\ bresult' = GetSiteCode(file)
                      /\ UNCHANGED <<to_remove, undeleted, log>>
                 ELSE IF StandardizeToa5(file).kind = "return"
                 THEN /\ to_remove' = Append(to_remove, fname)
                      /\ UNCHANGED <<bpc, undeleted, log, bresult>>
                 ELSE /\ to_remove' = Append(to_remove, fname)
                      /\ log' = Append(log, Error("Exception occurred processing", fname))
                      /\ UNCHANGED <<bpc, undeleted, bresult>>
  /\ UNCHANGED <<tables, single, selftest, outcomes, workers, homogenizer, splitter, writer,
                 new_files, telemetry>>

(* lines 43-54: one iteration of the first loop.  get_site_code is called  *)
(* outside the try and its exception leaves the function; an exception of *)
(* standardize_toa5 is logged; a file is appended to to_remove when        *)
(* standardize_toa5 has returned.  After the last file the second loop     *)
(* begins.                                                                 *)
BatchProcess ==
  /\ bpc = "process"
  /\ IF unprocessed = <<>>
     THEN /\ bpc' = "delete"
          /\ undeleted' = to_remove
          /\ UNCHANGED <<unprocessed, to_remove, log, bresult>>
     ELSE LET fname == Head(unprocessed)
              file  == new_files[fname]
          IN  /\ unprocessed' = Tail(unprocessed)
              /\ IF GetSiteCode(file).kind = "raise"
                 THEN /\ bpc' = "raised"
                      /\ bresult' = GetSiteCode(file)
                      /\ UNCHANGED <<to_remove, undeleted, log>>
                 ELSE IF StandardizeToa5(file).kind = "return"
                 THEN /\ to_remove' = Append(to_remove, fname)
                      /\ UNCHANGED <<bpc, undeleted, log, bresult>>
                 ELSE /\ log' = Append(log, Error("Exception occurred processing", fname))
                      /\ UNCHANGED <<bpc, to_remove, undeleted, bresult>>
  /\ UNCHANGED <<tables, single, selftest, outcomes, workers, homogenizer, splitter, writer,
                 new_files, telemetry>>

(* lines 55-61: one iteration of the second loop; ok: os.remove succeeds.  *)
(* OSError is logged and the loop goes on                                  *)
BatchDelete(ok) ==
  /\ bpc = "delete"
  /\ undeleted # <<>>
  /\ undeleted' = Tail(undeleted)
  /\ IF ok
     THEN /\ telemetry' = telemetry \ {Head(undeleted)}
          /\ UNCHANGED log
     ELSE /\ log' = Append(log, Error("Exception occurred deleting", Head(undeleted)))
          /\ UNCHANGED telemetry
  /\ UNCHANGED <<tables, single, selftest, outcomes, workers, homogenizer, splitter, writer,
                 bpc, new_files, unprocessed, to_remove, bresult>>

(* the second loop is over: the function returns *)
BatchReturn ==
  /\ bpc = "delete"
  /\ undeleted = <<>>
  /\ bpc' = "done"
  /\ bresult' = [kind |-> "return", exc |-> None]
  /\ UNCHANGED <<tables, single, selftest, outcomes, workers, homogenizer, splitter, writer,
                 new_files, unprocessed, to_remove, undeleted, telemetry, log>>

InitBatch == InitShipped

NextBatch ==
  \/ \E files \in Globs : BatchBegin(files)
  \/ BatchProcess
  \/ \E ok \in BOOLEAN : BatchDelete(ok)
  \/ BatchReturn

SpecBatch == InitBatch /\ [][NextBatch]_vars

(***************************************************************************)
(* most lines of a source file *)
MaxFileLines == 6

(* largest max_lines and hdr_lines given *)
MaxChunk == 2

(* '%s_%02d%s' % (basename, partno, ext) of the source "f.dat" *)
OutName(n) == "f_" \o (IF n < 10 THEN "0" ELSE "") \o ToString(n) \o ".dat"

(* tfile.readline(): the next line, or '' at the end of the file *)
readline(f) == IF f = <<>> THEN "" ELSE Head(f)

(* the lines f.writelines(lines) puts into a file: '' adds nothing *)
writelines(lines) == SelectSeq(lines, LAMBDA l : l # "")

(* the header lines read by `for i in range(hdr_lines)` from file f *)
RECURSIVE ReadHeader(_, _)
ReadHeader(f, n) ==
  IF n = 0 THEN <<>>
  ELSE <<readline(f)>> \o ReadHeader(IF f = <<>> THEN f ELSE Tail(f), n - 1)

(* the file left after n calls of readline *)
RECURSIVE Skip(_, _)
Skip(f, n) == IF n = 0 \/ f = <<>> THEN f ELSE Skip(Tail(f), n - 1)

(* split_toa5(source_file, max_lines, hdr_lines, delete_source) up to the  *)
(* loop over the data lines: the file is opened and the header read; the   *)
(* lines of the file are "1", "2", ...                                     *)
SplitBegin(total, maxl, hdrl) ==
  /\ spc = "idle"
  /\ source_file' = [lines |-> [i \in 1..total |-> ToString(i)], exists |-> TRUE]
  /\ max_lines' = maxl
  /\ hdr_lines' = hdrl
  /\ partno' = 1
  /\ towrite' = <<>>
  /\ results' = <<>>
  /\ hdr' = ReadHeader(source_file'.lines, hdrl)
  /\ lineno' = hdrl
  /\ tfile' = Skip(source_file'.lines, hdrl)
  /\ spc' = "reading"
  /\ UNCHANGED <<tables, single, selftest, outcomes, workers, homogenizer, writer, batch, outfiles>>

(* one iteration of `for line in tfile`: the line is kept, and when the    *)
(* counter exceeds max_lines the chunk is written to outname, the next     *)
(* name is made and appended to results                                    *)
SplitLine ==
  /\ spc = "reading"
  /\ tfile # <<>>
  /\ tfile' = Tail(tfile)
  /\ IF lineno + 1 > max_lines
     THEN /\ outfiles' = Append(outfiles, <<OutName(partno), writelines(hdr) \o writelines(Append(towrite, Head(tfile)))>>)
          /\ towrite' = <<>>
          /\ lineno' = 0
          /\ partno' = partno + 1
          /\ results' = Append(results, OutName(partno + 1))
     ELSE /\ towrite' = Append(towrite, Head(tfile))
          /\ lineno' = lineno + 1
          /\ UNCHANGED <<outfiles, partno, results>>
  /\ UNCHANGED <<tables, single, selftest, outcomes, workers, homogenizer, writer, batch,
                 spc, max_lines, hdr_lines, hdr, source_file>>

(* after the loop: the lines left are written to outname, the source is    *)
(* closed and, with delete_source, removed (removed: os.remove succeeds),  *)
(* and results is returned.  A failed os.remove is caught as WindowsError  *)
(* on Windows; elsewhere that name is undefined and evaluating the except  *)
(* clause raises NameError                                                 *)
SplitEnd(delete_source, removed, windows) ==
  /\ spc = "reading"
  /\ tfile = <<>>
  /\ outfiles' = IF Len(towrite) > 0
                 THEN Append(outfiles, <<OutName(partno), writelines(hdr) \o writelines(towrite)>>)
                 ELSE outfiles
  /\ source_file' = [source_file EXCEPT !.exists = ~(delete_source /\ removed)]
  /\ spc' = IF delete_source /\ ~removed /\ ~windows THEN "raised" ELSE "done"
  /\ UNCHANGED <<tables, single, selftest, outcomes, workers, homogenizer, writer, batch,
                 tfile, max_lines, hdr_lines, hdr, towrite, lineno, partno, results>>

InitSplit == InitShipped

NextSplit ==
  \/ \E total \in 0..MaxFileLines, maxl \in 1..MaxChunk, hdrl \in 0..MaxChunk :
       SplitBegin(total, maxl, hdrl)
  \/ SplitLine
  \/ \E delete_source, removed, windows \in BOOLEAN : SplitEnd(delete_source, removed, windows)

SpecSplit == InitSplit /\ [][NextSplit]_vars

(***************************************************************************)
(* current_names over alias tables of any values: besides the values of    *)
(* GenValues, those with None in exactly one field                         *)
(***************************************************************************)
OneNoneValues ==
  {<<None, c>> : c \in {""} \cup GenColumns} \cup {<<t, None>> : t \in {""} \cup GenTables}

AnyAliasTables ==
  UNION {[K -> GenValues \cup OneNoneValues] :
           K \in {S \in SUBSET GenIdentities : Cardinality(S) <= MaxKeys}}

InitResolve ==
  \/ InitShipped
  \/ /\ col_alias \in AnyAliasTables
     /\ table_definitions = [t \in {"T"} |-> <<"X", "Y">>]
     /\ InitRest

NextResolve ==
  \/ \E id \in Inputs : Call(id[1], id[2])
  \/ CurrentNames

SpecResolve == InitResolve /\ [][NextResolve]_vars

(***************************************************************************)
(* Vocabulary of the properties                                            *)
(***************************************************************************)
Shipped == col_alias = ShippedColAlias

(* a call of current_names has finished *)
CallDone == pc = "done" /\ result.kind # "none"

(* the pass _verify_col_alias has finished *)
PassDone == pc = "done" /\ verdict.kind # "none"

(* the identity the caller asked for, and the one looked up last *)
Asked == lookups[1]

Last == lookups[Len(lookups)]

Removed == <<None, None>>

Current == <<"", "">>

(* the identity that supersedes key under value val, as the documentation  *)
(* of col_alias states it: a blank field is the field of the key           *)
Superseding(key, val) ==
  <<IF val[1] = "" THEN key[1] ELSE val[1], IF val[2] = "" THEN key[2] ELSE val[2]>>

(* the chain of superseding identities that starts at id comes back to an  *)
(* identity it has already passed                                          *)
RECURSIVE ChainRevisits(_, _, _)
ChainRevisits(alias, id, seen) ==
  /\ id \in DOMAIN alias
  /\ alias[id] \notin {Removed, Current}
  /\ \/ Superseding(id, alias[id]) \in seen \cup {id}
     \/ ChainRevisits(alias, Superseding(id, alias[id]), seen \cup {id})

(* C1: with the shipped tables, current_names(table, column) of every pair *)
(* listed in table_definitions (the copies stats5, stats5_6rad, stats5_ui  *)
(* included) returns that very pair.                                       *)
C1_SchemaResolvesToItself ==
  /\ (Shipped /\ pc = "idle") =>
        \A p \in SchemaPairs(table_definitions) :
           Resolve(col_alias, p[1], p[2], 0) = Return(p[1], p[2])
  /\ (Shipped /\ CallDone /\ Asked \in SchemaPairs(table_definitions)) =>
        result = Return(Asked[1], Asked[2])

C1_Witness ==
  /\ Shipped /\ CallDone
  /\ Asked = <<"stats5_6rad", "dec_6rad_uplook_Avg(1)">>
  /\ Asked \in SchemaPairs(table_definitions)
  /\ result = Return("stats5_6rad", "dec_6rad_uplook_Avg(1)")

(* C2: with the shipped col_alias, the chain from every key stays within   *)
(* the keys, never passes an identity twice, and ends at an entry whose    *)
(* value is (None, None) or ('', '').                                      *)
C2_ShippedChainsEnd ==
  (Shipped /\ lookups # <<>> /\ Asked \in DOMAIN col_alias) =>
     /\ \A i \in DOMAIN lookups : lookups[i] \in DOMAIN col_alias
     /\ \A i, j \in DOMAIN lookups : i # j => lookups[i] # lookups[j]
     /\ CallDone => /\ result.kind = "return"
                    /\ col_alias[Last] \in {Removed, Current}

C2_Witness ==
  /\ Shipped /\ CallDone
  /\ Asked = <<"flux", "l">>
  /\ Len(lookups) = 4
  /\ col_alias[Last] = Current

(* C3: every key of the shipped col_alias whose value is ('', '') is a     *)
(* (table, column) pair of table_definitions.                              *)
C3_CurrentKeysAreDefined ==
  Shipped => \A k \in DOMAIN col_alias :
                col_alias[k] = Current => k \in SchemaPairs(table_definitions)

(* C4: a look-up of an identity that is not a key of the alias table ends  *)
(* the call with ColumnNotFoundError, whether it is the first look-up or a *)
(* later one.                                                              *)
C4_MissRaisesColumnNotFound ==
  /\ pc = "current_names" => \A i \in DOMAIN lookups : lookups[i] \in DOMAIN col_alias
  /\ (CallDone /\ \E i \in DOMAIN lookups : lookups[i] \notin DOMAIN col_alias) =>
        /\ Last \notin DOMAIN col_alias
        /\ result = Raise("ColumnNotFoundError")

C4_Witness ==
  /\ CallDone
  /\ Len(lookups) >= 2
  /\ Asked \in DOMAIN col_alias
  /\ Last \notin DOMAIN col_alias
  /\ result = Raise("ColumnNotFoundError")

(* C5 as stated: when the chain revisits an identity, the call ends with a *)
(* CyclicAlias failure.                                                    *)
C5_CycleRaisesCyclicAlias ==
  (CallDone /\ ChainRevisits(col_alias, Asked, {})) => result = Raise("CyclicAlias")

(* C5 as amended: when the chain revisits an identity, current_names keeps *)
(* calling itself round the cycle until RecursionLimit frames are active   *)
(* and then fails with RuntimeError; it returns no value and raises        *)
(* neither CyclicAlias nor ColumnNotFoundError.                            *)
C5_CycleEndsAtRecursionLimit ==
  /\ Len(stack) <= RecursionLimit
  /\ (CallDone /\ ChainRevisits(col_alias, Asked, {})) =>
        /\ result = Raise("RuntimeError")
        /\ Len(lookups) = RecursionLimit

C5_Witness ==
  /\ CallDone
  /\ Asked = <<"T", "X">>
  /\ <<"T", "X">> \in DOMAIN col_alias
  /\ col_alias[<<"T", "X">>] = <<"U", "Y">>
  /\ <<"U", "Y">> \in DOMAIN col_alias
  /\ col_alias[<<"U", "Y">>] = <<"T", "X">>
  /\ result = Raise("RuntimeError")

(* C6 as stated: a chain that ends at a current entry returns the identity *)
(* only if table_definitions lists it, and fails with SchemaMismatch if it *)
(* does not.                                                               *)
C6_CurrentChecksSchema ==
  (CallDone /\ Last \in DOMAIN col_alias /\ col_alias[Last] = Current) =>
     IF Last \in SchemaPairs(table_definitions)
     THEN result = Return(Last[1], Last[2])
     ELSE result = Raise("SchemaMismatch")

(* C6 as amended: a chain that ends at a current entry returns that        *)
(* identity whether table_definitions lists it or not; current_names never *)
(* fails with SchemaMismatch.                                              *)
C6_CurrentReturnedRegardless ==
  /\ result.exc # "SchemaMismatch"
  /\ (CallDone /\ Last \in DOMAIN col_alias /\ col_alias[Last] = Current) =>
        result = Return(Last[1], Last[2])

C6_Witness ==
  /\ CallDone
  /\ Last \in DOMAIN col_alias
  /\ col_alias[Last] = Current
  /\ Last \notin SchemaPairs(table_definitions)
  /\ result = Return(Last[1], Last[2])

(* C7: a chain that reaches an entry whose value is (None, None) returns   *)
(* (None, None) as an ordinary result; with the shipped table so do        *)
(* ('flux', 'gps_ready') and ('flux', 'sonic_cal_err_f_Tot').              *)
C7_RemovedReturnsNonePair ==
  /\ (CallDone /\ Last \in DOMAIN col_alias /\ col_alias[Last] = Removed) =>
        result = Return(None, None)
  /\ (Shipped /\ CallDone
        /\ Asked \in {<<"flux", "gps_ready">>, <<"flux", "sonic_cal_err_f_Tot">>}) =>
        result = Return(None, None)

C7_Witness ==
  /\ Shipped /\ CallDone
  /\ Asked = <<"flux", "gps_ready">>
  /\ col_alias[Last] = Removed
  /\ result = Return(None, None)

(* C8: when the entry of key (T, C) has a superseding value (t, c), the    *)
(* next identity looked up is (T if t is blank else t, C if c is blank     *)
(* else c), and the frames below are left as they were.                    *)
C8_BlankFieldsCarryOver ==
  [][(/\ pc = "current_names"
      /\ stack[Len(stack)] \in DOMAIN col_alias
      /\ col_alias[stack[Len(stack)]] \notin {Removed, Current}
      /\ Len(stack) < RecursionLimit)
       => stack' = Append(stack, Superseding(stack[Len(stack)], col_alias[stack[Len(stack)]]))]_vars

C8_Witness ==
  /\ pc = "current_names"
  /\ stack = <<<<"T", "Y">>, <<"T", "X">>>>
  /\ <<"T", "Y">> \in DOMAIN col_alias
  /\ col_alias[<<"T", "Y">>] = <<"", "X">>

(* C9: with the shipped table, ('flux', 'WS_ms_WVc(1)') is resolved by the *)
(* four look-ups of the documented chain and gives ('stats30',             *)
(* 'Met1_wnd_spd'); ('flux', 'l') gives ('stats30', 'L').                  *)
C9_ShippedChain ==
  /\ (Shipped /\ CallDone /\ Asked = <<"flux", "WS_ms_WVc(1)">>) =>
        /\ lookups = << <<"flux", "WS_ms_WVc(1)">>, <<"flux", "034b_ws">>,
                        <<"CFNT_stats30", "Met1_wnd_spd">>, <<"stats30", "Met1_wnd_spd">> >>
        /\ result = Return("stats30", "Met1_wnd_spd")
  /\ (Shipped /\ CallDone /\ Asked = <<"flux", "l">>) =>
        result = Return("stats30", "L")

C9_Witness ==
  /\ Shipped /\ CallDone
  /\ Asked = <<"flux", "WS_ms_WVc(1)">>
  /\ Len(lookups) = 4
  /\ result = Return("stats30", "Met1_wnd_spd")

(* C10: _verify_col_alias visits every key; a key whose resolution fails   *)
(* is recorded and the pass goes on, so that when the pass is over every   *)
(* failing key has been reported.                                          *)
C10_PassReportsEveryFailure ==
  PassDone =>
     /\ verdict.kind = "return"
     /\ \A k \in DOMAIN col_alias :
           Resolve(col_alias, k[1], k[2], 0).kind = "raise" => k \in Range(errs)

(* the second pass, and with it the self-test, has finished *)
Pass2Done == pc = "done" /\ verdict2.kind # "none"

(* the identities named in the warnings the self-test has printed *)
Warned ==
  UNION {{<<stdout[i].items[j].tbl, stdout[i].items[j].col>> : j \in DOMAIN stdout[i].items}
           : i \in {n \in DOMAIN stdout : stdout[n].text = "WARNINGS:"}}

(* C11: _verify_table_definitions reports every pair of table_definitions  *)
(* whose outcome is not the pair itself (dropped, another identity or a    *)
(* failed resolution) and goes on to the remaining pairs.                  *)
C11_EveryDivergingPairReported ==
  Pass2Done =>
     /\ verdict2.kind = "return"
     /\ \A p \in SchemaPairs(table_definitions) :
           Resolve(col_alias, p[1], p[2], 0) # Return(p[1], p[2])
              => \E i \in DOMAIN errmsg : errmsg[i].tbl = p[1] /\ errmsg[i].col = p[2]

(* C12: when the alias table has a dangling reference and a canonical      *)
(* column that does not resolve to itself, the report of the self-test     *)
(* names both.                                                             *)
C12_BothDefectsReported ==
  Pass2Done =>
     \A d \in DOMAIN col_alias, p \in SchemaPairs(table_definitions) :
        (/\ Resolve(col_alias, d[1], d[2], 0) = Raise("ColumnNotFoundError")
         /\ Resolve(col_alias, p[1], p[2], 0).kind = "return"
         /\ Resolve(col_alias, p[1], p[2], 0) # Return(p[1], p[2]))
           => d \in Warned /\ p \in Warned

(* C13: a pass that returns gives True exactly when it has recorded        *)
(* nothing and False exactly when it has recorded something; what it has   *)
(* recorded names identities it had to check and that are in defect; and   *)
(* it does not return True while an identity it had to check fails.        *)
C13_VerdictMatchesRecord ==
  /\ verdict.kind = "return" =>
        /\ verdict.value = (errs = <<>>)
        /\ \A i \in DOMAIN errs :
              /\ errs[i] \in DOMAIN col_alias
              /\ Resolve(col_alias, errs[i][1], errs[i][2], 0).kind = "raise"
        /\ verdict.value =>
              \A k \in DOMAIN col_alias : Resolve(col_alias, k[1], k[2], 0).kind # "raise"
  /\ verdict2.kind = "return" =>
        /\ verdict2.value = (errmsg = <<>>)
        /\ \A i \in DOMAIN errmsg :
              /\ <<errmsg[i].tbl, errmsg[i].col>> \in SchemaPairs(table_definitions)
              /\ Resolve(col_alias, errmsg[i].tbl, errmsg[i].col, 0)
                    # Return(errmsg[i].tbl, errmsg[i].col)
        /\ verdict2.value =>
              \A p \in SchemaPairs(table_definitions) :
                 Resolve(col_alias, p[1], p[2], 0) = Return(p[1], p[2])

C13_Witness ==
  /\ Pass2Done
  /\ verdict.kind = "return" /\ verdict.value
  /\ verdict2.kind = "return" /\ ~verdict2.value
  /\ Len(errmsg) = 1
  /\ errmsg[1].tbl = "T" /\ errmsg[1].col = "Y" /\ errmsg[1].c = "X"
  /\ <<"T", "Y">> \in Warned

(* C15: no step of current_names or of the two passes of the self-test     *)
(* changes col_alias, table_definitions or historical_table_names, on any  *)
(* outcome, and the set of historical table names stays that of the keys.  *)
C15_TablesNeverChange ==
  [][/\ col_alias' = col_alias
     /\ table_definitions' = table_definitions
     /\ historical_table_names' = historical_table_names
     /\ historical_table_names' = {k[1] : k \in DOMAIN col_alias'}]_vars

C15_Witness ==
  /\ CallDone
  /\ result = Raise("ColumnNotFoundError")
  /\ Len(lookups) = 2
  /\ Cardinality(DOMAIN col_alias) = MaxKeys
  /\ historical_table_names = {k[1] : k \in DOMAIN col_alias}

(* C20: when current_names returns a current identity y (a pair other than *)
(* (None, None)), current_names of y returns y.                            *)
C20_CurrentIsFixedPoint ==
  (CallDone /\ result.kind = "return" /\ result # Return(None, None)) =>
     Resolve(col_alias, result.table, result.column, 0) = result

C20_Witness ==
  /\ CallDone
  /\ Len(lookups) = 2
  /\ result.kind = "return"
  /\ result # Return(None, None)
  /\ <<result.table, result.column>> # Asked

(* C14: with the alias table fixed, a call of current_names for an         *)
(* identity gives the outcome every earlier call for that identity gave,   *)
(* whatever was resolved before or in between.                             *)
C14_SameOutcomeEveryCall ==
  /\ \A o1, o2 \in outcomes : o1[1] = o2[1] => o1[2] = o2[2]
  /\ CallDone => \A o \in outcomes : o[1] = Asked => o[2] = result

C14_Witness ==
  /\ CallDone
  /\ Len(lookups) = 2
  /\ \E o \in outcomes : o[1] = Asked /\ o[2] = result
  /\ \E o \in outcomes : o[1] # Asked /\ o[2] # result

(* C16: whatever the interleaving of the steps of the workers, the call of *)
(* each worker ends with the outcome the same call has when made alone.    *)
C16_InterleavingKeepsOutcome ==
  \A w \in Workers :
     /\ Len(workers[w].stack) <= RecursionLimit
     /\ workers[w].pc = "done" =>
           workers[w].result = Resolve(col_alias, workers[w].asked[1], workers[w].asked[2], 0)

C16_Witness ==
  /\ workers["w1"].pc = "current_names"
  /\ Len(workers["w1"].stack) = 2
  /\ workers["w2"].pc = "done"
  /\ workers["w2"].result.kind = "return"
  /\ workers["w2"].asked # workers["w1"].asked
  /\ workers["w2"].result # Return(workers["w2"].asked[1], workers["w2"].asked[2])

(***************************************************************************)
(* Vocabulary of the homogenizer claims                                    *)
(***************************************************************************)
(* _standardize_df has returned outdfs to _homogenize *)
FileReturned == fpc = "done" /\ fresult.kind = "return"

(* what current_names gives for column c of the source file *)
Res(c) == Resolve(col_alias, was_tblname, c, 0)

(* resolve fails for column c: the look-up misses *)
Missed(c) == Res(c).kind = "raise" /\ Res(c).exc = "ColumnNotFoundError"

(* column c resolves to Dropped *)
ResDropped(c) == Res(c).kind = "return" /\ Res(c).column = None

(* column c resolves to the Current identity (t, k) *)
ResCurrent(c, t, k) ==
  /\ Res(c).kind = "return"
  /\ Res(c).column # None
  /\ Res(c).table # None
  /\ Res(c).table = t
  /\ Res(c).column = k

(* column k of output table t holds the cells of source column c *)
Holds(t, k, c) ==
  /\ t \in DOMAIN outdfs
  /\ k \in DOMAIN outdfs[t].data
  /\ \/ outdfs[t].data[k] = rawdf.data[c]
     \/ /\ t = "site_info"
        /\ k \in {"CompileResults", "CardStatus"}
        /\ NaN \notin Range(rawdf.data[c])
        /\ outdfs[t].data[k] = apply(rawdf.data[c])

(* the cells of source column c are in some output table *)
InOutput(c) ==
  /\ rawdf.data[c] # <<>>
  /\ \E t \in DOMAIN outdfs : \E k \in DOMAIN outdfs[t].data : Holds(t, k, c)

(* no column after position i of the source file resolves to (t, k) *)
LastFor(i, t, k) ==
  \A j \in DOMAIN rawdf.columns : j > i => ~ResCurrent(rawdf.columns[j], t, k)

C18_CurrentPlacedDroppedDiscarded ==
  FileReturned =>
    \A c \in Range(rawdf.columns) :
      /\ ResDropped(c) => ~InOutput(c)
      /\ \A t \in {Res(c).table} : \A k \in {Res(c).column} :
           ResCurrent(c, t, k) => Holds(t, k, c)

(***************************************************************************)
(* C19: every output table of _standardize_df has exactly the columns of   *)
(* table_definitions[table] after the first (TIMESTAMP), in the order of   *)
(* the definition, whatever the columns of the source file; a column that  *)
(* no source column resolves to is present and NaN in every row.           *)
(***************************************************************************)
C19_OutputColumnsAreDefinition ==
  \A t \in DOMAIN outdfs :
    /\ t \in DOMAIN table_definitions
    /\ outdfs[t].columns = Tail(table_definitions[t])
    /\ DOMAIN outdfs[t].data = Range(Tail(table_definitions[t]))
    /\ \A k \in DOMAIN outdfs[t].data :
         (\A c \in Range(rawdf.columns) : ~ResCurrent(c, t, k))
           => \A i \in DOMAIN outdfs[t].data[k] : outdfs[t].data[k][i] = NaN

(* an output table has been returned in which one column of the definition *)
(* comes from the source file and another, of as many rows, is all NaN     *)
C19_Witness ==
  /\ FileReturned
  /\ \E t \in DOMAIN outdfs :
       \E k, n \in DOMAIN outdfs[t].data :
         /\ \E c \in Range(rawdf.columns) : ResCurrent(c, t, k) /\ Holds(t, k, c)
         /\ \A c \in Range(rawdf.columns) : ~ResCurrent(c, t, n)
         /\ outdfs[t].data[n] = <<NaN>>

(***************************************************************************)
(* Vocabulary of the claims about the look-ups of one call                 *)
(***************************************************************************)
(* the number of redirections on the chain of superseding identities from  *)
(* id to an identity that is removed, current or not a key; the chain      *)
(* does not revisit an identity                                            *)
RECURSIVE Redirections(_, _)
Redirections(alias, id) ==
  IF id \notin DOMAIN alias \/ alias[id] \in {Removed, Current} THEN 0
  ELSE 1 + Redirections(alias, Superseding(id, alias[id]))

(* exactly one field of the value is None *)
OneNone(val) == (val[1] = None) # (val[2] = None)

C26_ReturnsRemovedOrCurrentKey ==
  CallDone /\ result.kind = "return" =>
    LET v == <<result.table, result.column>>
    IN  /\ \/ v = Removed
           \/ v \in DOMAIN col_alias /\ col_alias[v] = Current
        /\ "" \notin {v[1], v[2]}
        /\ ~OneNone(v)
        /\ v = Removed =>
             \E i \in DOMAIN lookups :
               lookups[i] \in DOMAIN col_alias /\ col_alias[lookups[i]] = Removed

(* a call has returned a current key that it reached by a redirection *)
C26_Witness ==
  /\ CallDone
  /\ result.kind = "return"
  /\ <<result.table, result.column>> # Removed
  /\ <<result.table, result.column>> # Asked
  /\ Len(lookups) = 2

(***************************************************************************)
(* C27: a value with None in exactly one field is not treated as removed:  *)
(* current_names follows it as a redirection, the None taking the place of *)
(* the table or column name of the next look-up; and no value of the       *)
(* shipped col_alias is of this kind.                                      *)
(***************************************************************************)
C27_OneNoneIsFollowed ==
  /\ CallDone /\ Asked \in DOMAIN col_alias /\ OneNone(col_alias[Asked]) =>
       /\ Len(lookups) >= 2
       /\ lookups[2] = Superseding(Asked, col_alias[Asked])
       /\ None \in {lookups[2][1], lookups[2][2]}
       /\ result # Return(None, None)
  /\ Shipped => \A k \in DOMAIN col_alias : ~OneNone(col_alias[k])

(* a call for a key whose value has one None has finished *)
C27_Witness ==
  /\ CallDone
  /\ Asked \in DOMAIN col_alias
  /\ OneNone(col_alias[Asked])
  /\ Len(lookups) = 2

(***************************************************************************)
(* C28: when two distinct columns of one source file resolve to the same   *)
(* current (table, column), as wnd_dir_compass and rslt_wnd_spd of         *)
(* CFNT_stats5 do to ('stats5', 'rslt_wnd_spd') in the shipped table, the  *)
(* output column holds the cells of the column that comes later in the     *)
(* source file and no message names the earlier one; an output column is   *)
(* all NaN or holds the cells of one source column, never a mixture.       *)
(***************************************************************************)
C28_LaterColumnWins ==
  /\ Shipped =>
       /\ Resolve(col_alias, "CFNT_stats5", "wnd_dir_compass", 0) = Return("stats5", "rslt_wnd_spd")
       /\ Resolve(col_alias, "CFNT_stats5", "rslt_wnd_spd", 0) = Return("stats5", "rslt_wnd_spd")
  /\ FileReturned =>
       /\ \A i, j \in DOMAIN rawdf.columns :
            \A t \in DOMAIN table_definitions :
              \A k \in Range(Tail(table_definitions[t])) :
                /\ i < j
                /\ ResCurrent(rawdf.columns[i], t, k)
                /\ ResCurrent(rawdf.columns[j], t, k)
                /\ LastFor(j, t, k)
                => /\ Holds(t, k, rawdf.columns[j])
                   /\ \A n \in DOMAIN msgs : msgs[n].column # rawdf.columns[i]
       /\ \A t \in DOMAIN outdfs :
            \A k \in DOMAIN outdfs[t].data :
              \/ \A n \in DOMAIN outdfs[t].data[k] : outdfs[t].data[k][n] = NaN
              \/ \E c \in Range(rawdf.columns) : ResCurrent(c, t, k) /\ Holds(t, k, c)

(* the CFNT_stats5 file in which rslt_wnd_spd comes last has been          *)
(* standardized: stats5.rslt_wnd_spd holds its cells, a NaN included, and  *)
(* none of wnd_dir_compass                                                 *)
C28_Witness ==
  /\ Shipped
  /\ FileReturned
  /\ verbose
  /\ was_tblname = "CFNT_stats5"
  /\ rawdf.columns = <<"RECORD", "wnd_dir_compass", "rslt_wnd_spd">>
  /\ "stats5" \in DOMAIN outdfs
  /\ outdfs["stats5"].data["rslt_wnd_spd"] = <<"1.5", NaN>>

(***************************************************************************)
(* C29: the tables returned by _standardize_df are keys of                 *)
(* table_definitions.  Source columns that resolve to a current identity   *)
(* whose table has no definition (shipped: stats30_n2o_co, stats5_n2o_co)  *)
(* are in no output and the table is skipped with a message (shown with    *)
(* --verbose), while the other resolved tables of the file are output.     *)
(***************************************************************************)
C29_OutputTablesAreDefined ==
  /\ DOMAIN outdfs \subseteq DOMAIN table_definitions
  /\ Shipped => {"stats30_n2o_co", "stats5_n2o_co"} \cap DOMAIN table_definitions = {}
  /\ FileReturned =>
       /\ \A c \in Range(rawdf.columns) :
            \A t \in {Res(c).table} \ DOMAIN table_definitions :
              ResCurrent(c, t, Res(c).column) =>
                /\ ~InOutput(c)
                /\ verbose => Msg("No table definition found", None, t) \in Range(msgs)
       /\ DOMAIN outdfs = DOMAIN newdfs \cap DOMAIN table_definitions

(* a file whose columns resolve to a table without definition and to a     *)
(* table with one has been standardized: only the latter is output         *)
C29_Witness ==
  /\ FileReturned
  /\ verbose
  /\ DOMAIN newdfs \ DOMAIN table_definitions # {}
  /\ DOMAIN outdfs # {}
  /\ \E c \in Range(rawdf.columns) : InOutput(c)

(***************************************************************************)
(* Vocabulary of the claims about split_toa5                               *)
(***************************************************************************)
(* split_toa5 has returned results *)
SplitDone == spc = "done"

(* the first hdr_lines lines of the source, and its other lines *)
SourceHeader == SubSeq(source_file.lines, 1, IF hdr_lines < Len(source_file.lines) THEN hdr_lines ELSE Len(source_file.lines))

SourceData == Skip(source_file.lines, hdr_lines)

(* the lines of output file i below its header *)
DataOf(i) == SubSeq(outfiles[i][2], Len(SourceHeader) + 1, Len(outfiles[i][2]))

(* the data lines of the first n output files, one file after the other *)
RECURSIVE DataUpTo(_)
DataUpTo(n) == IF n = 0 THEN <<>> ELSE DataUpTo(n - 1) \o DataOf(n)

(* every output file begins with the header of the source, and the data    *)
(* lines of the output files in order are those of the source              *)
SplitKeepsLines ==
  SplitDone =>
    /\ \A i \in DOMAIN outfiles :
         /\ Len(outfiles[i][2]) >= Len(SourceHeader)
         /\ SubSeq(outfiles[i][2], 1, Len(SourceHeader)) = SourceHeader
    /\ DataUpTo(Len(outfiles)) = SourceData

(***************************************************************************)
(* C23: split_toa5 writes at most max_lines non-header lines to each       *)
(* output file, repeats the first hdr_lines lines of the source at the top *)
(* of every output file, and the non-header lines of the output files in   *)
(* part order are those of the source in order.                            *)
(***************************************************************************)
C23_ChunksHoldAtMostMaxLines ==
  /\ SplitKeepsLines
  /\ SplitDone => \A i \in DOMAIN outfiles : Len(DataOf(i)) <= max_lines

(***************************************************************************)
(* C24: the list split_toa5 returns holds exactly the names of the output  *)
(* files written, each once, in order.                                     *)
(***************************************************************************)
C24_ReturnsNamesWritten ==
  SplitDone => results = [i \in DOMAIN outfiles |-> outfiles[i][1]]

(* the temporary file holds the whole table *)
TempComplete == tempname \in DOMAIN disk /\ disk[tempname] = SafeWriteCsv(wtable)

(* C21: a file that existed at an output path when the writing loop began  *)
(* is removed or changed only by the removal or the renaming that follow   *)
(* the writing of the temporary file, when the temporary file is complete; *)
(* no other step, and no abort, touches it                                 *)
C21_ExistingKeptUntilTempComplete ==
  [][\A p \in DOMAIN disk0 \cap DOMAIN disk :
       (p \notin DOMAIN disk' \/ disk'[p] # disk[p])
         => /\ wpc \in {"remove", "rename"}
            /\ p = outpath
            /\ TempComplete]_vars

(* aborted while the temporary file was being written: the existing file   *)
(* at outpath is as it was                                                 *)
C21_Witness ==
  /\ wpc = "aborted"
  /\ outpath \in DOMAIN disk0
  /\ tempname \in DOMAIN disk
  /\ disk[tempname] # SafeWriteCsv(wtable)
  /\ disk[tempname].header # <<>>
  /\ outpath \in DOMAIN disk
  /\ disk[outpath] = disk0[outpath]

(* the table at the head of wtables has rows, its output file exists and   *)
(* the header of the file is not that of the table                         *)
HeaderMismatch ==
  /\ wpc = "bales"
  /\ wtables # <<>>
  /\ DOMAIN Head(wtables).rows # {}
  /\ LET made == MakeOutFname(Head(wtables), site_code, newname, baled)
     IN  /\ made.kind = "return"
         /\ made.fname \in DOMAIN disk
         /\ disk[made.fname].header # Head(wtables).columns

(* C22: when the output file of the table exists with another header, the  *)
(* step of the loop writes no file at all, temporary or not, leaves every  *)
(* file as it is, raises nothing and goes on to the next table              *)
C22_HeaderMismatchSkipsOutput ==
  [][HeaderMismatch
       => /\ disk' = disk
          /\ wpc' \in {"bales", "aborted"}
          /\ wresult' = wresult
          /\ wpc' = "bales" => wtables' = Tail(wtables)]_vars

(* the first bale met a file with another header and was skipped, and the  *)
(* second bale of the same table was written afterwards                    *)
C22_Witness ==
  /\ wpc = "done"
  /\ baled
  /\ "CFNT_stats30_1.dat" \in DOMAIN disk0
  /\ disk0["CFNT_stats30_1.dat"].header = <<"RECORD">>
  /\ disk["CFNT_stats30_1.dat"] = disk0["CFNT_stats30_1.dat"]
  /\ "CFNT_stats30_1.dat~0" \notin DOMAIN disk
  /\ \E p \in DOMAIN disk \ DOMAIN disk0 : disk[p].header = Tail(ShippedTableDefinitions["stats30"])

(* the files of new_files that are no longer in the directory *)
Deleted == DOMAIN new_files \ telemetry

(* os.remove failed for the file and the failure was logged *)
DeleteFailed(fname) == \E i \in DOMAIN log : log[i] = Error("Exception occurred deleting", fname)

=============================================================================
